---- MODULE Spec2Model ----
(***************************************************************************)
(* Model of the Azure DevOps MCP server's service layer:                   *)
(*   - GDPRValidator        (src/utils/gdprValidator.ts)                   *)
(*   - WorkItemService      (src/services/workItemService.ts, lines 1-450) *)
(*   - main / request loop  (index.ts, listed in azure-devops.types.ts)    *)
(* Strings whose content the code inspects (work item types, relation      *)
(* URLs) are sequences of one-character strings, so that toLowerCase and   *)
(* the regular expressions are computed, not assumed.                      *)
(***************************************************************************)
EXTENDS Integers, Sequences, FiniteSets, TLC

VARIABLES
    blockedWorkItemTypes,  \* GDPRValidator.blockedWorkItemTypes (a Set<string>)
    initialized,           \* GDPRValidator.initialized
    pc,                    \* position of main(): "start", "gdpr", "connected", "serving"
    config,                \* the Config loaded by main (gdprBlockedWorkItemTypes)
    backend,               \* the Azure DevOps server: work items, WIQL result, git objects
    call,                  \* the tool call being answered: operation, arguments, outcome, backend log
    gateCall,              \* the last direct call of a GDPRValidator method and its outcome
    prevGateCall           \* the direct GDPRValidator call before that one

vars == <<blockedWorkItemTypes, initialized, pc, config, backend, call, gateCall, prevGateCall>>

(***************************************************************************)
(* Bounds of the model.                                                    *)
(***************************************************************************)
MaxId == 4          \* work item ids are 1..MaxId
MaxFaults == 2      \* at most this many work items of a backend are not plain allowed records
MaxDepthBound == 3  \* callers pass maxDepth in 0..MaxDepthBound
MaxGateId == 2      \* ids of the records handed directly to GDPRValidator.validate

Ids == 1..MaxId

Null == "null"            \* JavaScript null / undefined

(***************************************************************************)
(* Strings as character sequences.                                         *)
(***************************************************************************)
UpperLetters == <<"A","B","C","D","E","F","G","H","I","J","K","L","M",
                  "N","O","P","Q","R","S","T","U","V","W","X","Y","Z">>
LowerLetters == <<"a","b","c","d","e","f","g","h","i","j","k","l","m",
                  "n","o","p","q","r","s","t","u","v","w","x","y","z">>
DigitChars == <<"0","1","2","3","4","5","6","7","8","9">>

LowerChar(c) ==
    IF \E i \in 1..Len(UpperLetters) : UpperLetters[i] = c
    THEN LowerLetters[CHOOSE i \in 1..Len(UpperLetters) : UpperLetters[i] = c]
    ELSE c

\* String.prototype.toLowerCase
ToLowerCase(s) == [i \in 1..Len(s) |-> LowerChar(s[i])]

IsDigit(c) == \E i \in 1..Len(DigitChars) : DigitChars[i] = c
DigitValue(c) == (CHOOSE i \in 1..Len(DigitChars) : DigitChars[i] = c) - 1

\* Number -> decimal string, as a template literal prints an id
RECURSIVE NumToStr(_)
NumToStr(n) ==
    IF n < 10 THEN <<DigitChars[n + 1]>>
    ELSE NumToStr(n \div 10) \o <<DigitChars[(n % 10) + 1]>>

\* parseInt(s, 10) on a string of decimal digits
RECURSIVE ParseInt(_)
ParseInt(s) ==
    IF Len(s) = 0 THEN 0
    ELSE 10 * ParseInt(SubSeq(s, 1, Len(s) - 1)) + DigitValue(s[Len(s)])

\* url.match(/(\d+)$/): the longest run of digits that ends the string;
\* the empty sequence when the string does not end in a digit (no match)
RECURSIVE TrailingDigits(_)
TrailingDigits(s) ==
    IF Len(s) = 0 \/ ~IsDigit(s[Len(s)]) THEN <<>>
    ELSE TrailingDigits(SubSeq(s, 1, Len(s) - 1)) \o <<s[Len(s)]>>

(***************************************************************************)
(* Work item types and records.                                            *)
(***************************************************************************)
TBug == <<"B","u","g">>
TBugLower == <<"b","u","g">>
TBugUpper == <<"B","U","G">>
TTask == <<"T","a","s","k">>
TIssue == <<"I","s","s","u","e">>
NoType == <<>>        \* fields['System.WorkItemType'] undefined or '' (both falsy)
NoUrl == <<>>         \* relation.url undefined or '' (both falsy)

TypeNames == {TBug, TBugLower, TBugUpper, TTask, TIssue}

\* values config.gdprBlockedWorkItemTypes takes in the model
BlockLists == {<<>>, <<TBug>>, <<TBugUpper, TIssue>>, <<TTask>>}

\* the field mapping of a work item: the fields the service reads
MkFields(type, id) ==
    [type |-> type, title |-> <<"title", id>>, state |-> "New", assignedTo |-> <<"user", id>>,
     description |-> <<"description", id>>, areaPath |-> <<"area", id>>,
     iterationPath |-> <<"iteration", id>>, tags |-> <<"t", ";", " ", "u">>]

EmptyFields ==
    [type |-> NoType, title |-> <<"", 0>>, state |-> "", assignedTo |-> <<"", 0>>,
     description |-> <<"", 0>>, areaPath |-> <<"", 0>>, iterationPath |-> <<"", 0>>,
     tags |-> <<>>]

\* a WorkItem of the backend SDK: id 0 stands for a missing id, hasFields and
\* hasRelations say whether workItem.fields / workItem.relations are defined
MkWorkItem(id, hasFields, fields, hasRelations, relations) ==
    [id |-> id, hasFields |-> hasFields, fields |-> fields,
     hasRelations |-> hasRelations, relations |-> relations]

(***************************************************************************)
(* Errors (errorHandler.ts) and outcomes of a call.  An error is its class *)
(* name and the parts its message is built from.                           *)
(***************************************************************************)
MkError(name, text, id, type, inner) ==
    [name |-> name, text |-> text, id |-> id, type |-> type, inner |-> inner]

NoError == MkError("none", "", 0, <<>>, "")

PlainError(text) == MkError("Error", text, 0, <<>>, "")

GDPRComplianceError(workItemId, workItemType) ==
    MkError("GDPRComplianceError",
            "Access to work item #{id} of type {type} is blocked by GDPR policy.",
            workItemId, workItemType, "")

NotFoundError(resourceType, resourceId) ==
    MkError("NotFoundError", "{inner} with ID {id} not found.", resourceId, <<>>, resourceType)

Return(val) == [ok |-> TRUE, val |-> val, err |-> NoError]
Throw(e) == [ok |-> FALSE, val |-> Null, err |-> e]

(***************************************************************************)
(* GDPRValidator                                                           *)
(***************************************************************************)
\* the Set built by initialize: every configured type lower-cased
LowerCasedSet(blockedTypes) ==
    {ToLowerCase(blockedTypes[i]) : i \in 1..Len(blockedTypes)}

\* variant of NormalizedType: the type is compared as written
NormalizedType_asWritten(workItemType) == workItemType

\* String(workItemType).toLowerCase() of validate
NormalizedType(workItemType) == ToLowerCase(workItemType)

\* GDPRValidator.validate: returns normally (val = "void") or throws
validate(workItem) ==
    IF ~initialized
    THEN Throw(PlainError("GDPRValidator must be initialized before use"))
    ELSE IF workItem.id = 0
    THEN Throw(PlainError("Work item must have an ID"))
    ELSE IF ~workItem.hasFields
    THEN Throw(PlainError("Work item must have fields"))
    ELSE IF workItem.fields.type = NoType
    THEN Throw(PlainError("Work item must have a type (System.WorkItemType field)"))
    ELSE IF NormalizedType(workItem.fields.type) \in blockedWorkItemTypes
    THEN Throw(GDPRComplianceError(workItem.id, workItem.fields.type))
    ELSE Return("void")

\* GDPRValidator.isBlocked
isBlocked(workItemType) ==
    IF ~initialized
    THEN Throw(PlainError("GDPRValidator must be initialized before use"))
    ELSE Return(ToLowerCase(workItemType) \in blockedWorkItemTypes)

\* GDPRValidator.getBlockedTypes
getBlockedTypes == Return(blockedWorkItemTypes)

(***************************************************************************)
(* The backend: what the Azure DevOps SDK clients answer.                  *)
(***************************************************************************)
HierarchyForward == "System.LinkTypes.Hierarchy-Forward"
HierarchyReverse == "System.LinkTypes.Hierarchy-Reverse"
ArtifactLink == "ArtifactLink"

MkRelation(rel, url) == [rel |-> rel, url |-> url]

WorkItemUrlPrefix == <<"_","a","p","i","s","/","w","i","t","/","w","o","r","k","I","t","e","m","s","/">>

\* a hierarchy-child relation to work item k, as the server reports it
ChildRelation(k) == MkRelation(HierarchyForward, WorkItemUrlPrefix \o NumToStr(k))

\* relation lists per work item; every shape scales with MaxId
ChainRelations(i) == IF i < MaxId THEN <<ChildRelation(i + 1)>> ELSE <<>>

StarRelations(i) == IF i = 1 THEN [k \in 1..(MaxId - 1) |-> ChildRelation(k + 1)] ELSE <<>>

TreeRelations(i) ==
    (IF 2 * i \in Ids THEN <<ChildRelation(2 * i)>> ELSE <<>>)
    \o (IF 2 * i + 1 \in Ids THEN <<ChildRelation(2 * i + 1)>> ELSE <<>>)

CycleRelations(i) == IF i < MaxId THEN <<ChildRelation(i + 1)>> ELSE <<ChildRelation(1)>>

\* a cycle short enough to be walked around: 1 -> 2 -> 1
TwoCycleRelations(i) ==
    IF i = 1 THEN <<ChildRelation(2)>> ELSE IF i = 2 THEN <<ChildRelation(1)>> ELSE <<>>

\* relations the walker must ignore, mixed with real children
NoisyRelations(i) ==
    IF i = 1
    THEN <<MkRelation(HierarchyReverse, WorkItemUrlPrefix \o NumToStr(MaxId)),
           ChildRelation(2),
           MkRelation(HierarchyForward, WorkItemUrlPrefix \o <<"x">>),
           MkRelation(HierarchyForward, NoUrl)>>
         \o [k \in 1..(MaxId - 2) |-> ChildRelation(k + 2)]
    ELSE IF i = 3 /\ 4 \in Ids THEN <<ChildRelation(4)>>
    ELSE <<>>

(***************************************************************************)
(* Artifact links and the git side of the backend.                         *)
(***************************************************************************)
HashLen == 40   \* {40} of the commit-hash pattern

CommitUrn == <<"v","s","t","f","s",":","/","/","/","G","i","t","/","C","o","m","m","i","t","/">>
PullRequestUrn == <<"v","s","t","f","s",":","/","/","/","G","i","t","/",
                    "P","u","l","l","R","e","q","u","e","s","t","I","d","/">>
BuildUrn == <<"v","s","t","f","s",":","/","/","/","B","u","i","l","d","/","B","u","i","l","d","/">>

RepoName == <<"r","e","p","o">>

\* a 40-character hash made of one hex digit
Hash(c) == [i \in 1..HashLen |-> c]

CommitRelation(repo, hash) == MkRelation(ArtifactLink, CommitUrn \o repo \o <<"/">> \o hash)
PullRequestRelation(repo, prId) ==
    MkRelation(ArtifactLink, PullRequestUrn \o repo \o <<"/">> \o NumToStr(prId))

\* the artifact links of the work items: item 1 links commit a, pull request 1,
\* a commit whose hash is too short, a build, commit c and pull request 2;
\* item 2 links commit b
ArtifactRelations(i) ==
    IF i = 1
    THEN <<CommitRelation(RepoName, Hash("a")),
           PullRequestRelation(RepoName, 1),
           MkRelation(ArtifactLink, CommitUrn \o RepoName \o <<"/">> \o <<"a","b","c">>),
           MkRelation(ArtifactLink, BuildUrn \o <<"7">>),
           CommitRelation(RepoName, Hash("c")),
           PullRequestRelation(RepoName, 2)>>
    ELSE IF i = 2 THEN <<CommitRelation(RepoName, Hash("B"))>>
    ELSE <<>>

MkCommit(commitId, date, comment) == [commitId |-> commitId, date |-> date, comment |-> comment]

GitVariants == {"ok", "commitThrows", "commitNull", "prThrows", "prNull"}

\* gitApi answers: commits a, b, c (dates 3, 2, 1), pull request 1 = <<b, c>> and
\* pull request 2 = <<d>> (date 4); the faults hit commit a and pull request 1;
\* a commit of date 0 reports no author date
MkGit(variant) ==
    [commits |-> [h \in {Hash("a"), Hash("b"), Hash("c")} |->
                    [resp |-> IF h = Hash("a") /\ variant = "commitThrows" THEN "throws"
                              ELSE IF h = Hash("a") /\ variant = "commitNull" THEN "null"
                              ELSE "item",
                     commit |-> MkCommit(h,
                                         CASE h = Hash("a") -> 3 [] h = Hash("b") -> 2 [] OTHER -> 1,
                                         "direct")]],
     prs |-> [n \in {1, 2} |->
                    [resp |-> IF n = 1 /\ variant = "prThrows" THEN "throws"
                              ELSE IF n = 1 /\ variant = "prNull" THEN "null" ELSE "list",
                     commits |-> IF n = 1
                                 THEN <<MkCommit(Hash("b"), 2, "pr"), MkCommit(Hash("c"), 1, "pr")>>
                                 ELSE <<MkCommit(Hash("d"), 4, "pr")>>]],
     now |-> 9]

Topologies == {"chain", "star", "tree", "cycle", "noisy"}

HierarchyRelations(topology, i) ==
    CASE topology = "chain" -> ChainRelations(i)
      [] topology = "star" -> StarRelations(i)
      [] topology = "tree" -> TreeRelations(i)
      [] topology = "cycle" -> CycleRelations(i)
      [] topology = "twoCycle" -> TwoCycleRelations(i)
      [] OTHER -> NoisyRelations(i)

\* what api.getWorkItem answers for one id: a record, null, or a rejected promise
ItemKinds == {"Task", "Bug", "null", "throws", "noId", "noFields", "noType"}

BackendEntry(kind, id, relations) ==
    [resp |-> CASE kind = "null" -> "null" [] kind = "throws" -> "throws" [] OTHER -> "item",
     item |-> MkWorkItem(IF kind = "noId" THEN 0 ELSE id,
                         kind # "noFields",
                         CASE kind = "Task" -> MkFields(TTask, id)
                           [] kind = "Bug" -> MkFields(TBug, id)
                           [] kind = "noType" -> MkFields(NoType, id)
                           [] OTHER -> EmptyFields,
                         \* a work item without any relation carries no relations array
                         Len(relations) > 0,
                         relations)]

KindAssignments ==
    {k \in [Ids -> ItemKinds] : Cardinality({i \in Ids : k[i] # "Task"}) <= MaxFaults}

\* every record is a Task
AllTasks == [i \in Ids |-> "Task"]

\* assignments in which only the root (work item 1) may deviate
RootKindAssignments == {k \in KindAssignments : \A i \in Ids : i # 1 => k[i] = "Task"}

MkBackend(kinds, topology, gitVariant) ==
    [items |-> [i \in Ids |->
                  BackendEntry(kinds[i], i,
                               HierarchyRelations(topology, i) \o ArtifactRelations(i))],
     wiql |-> [resp |-> "ok", ids |-> [i \in Ids |-> i]],
     git |-> MkGit(gitVariant)]

\* the backends a run starts from: every fault pattern on every hierarchy with
\* a healthy git side, and every git fault under a star hierarchy
Backends ==
    {MkBackend(k, t, "ok") : k \in KindAssignments, t \in Topologies}
    \cup {MkBackend(k, "star", g) : k \in RootKindAssignments, g \in GitVariants}

\* api.getWorkItem(id, ..., project): ids the server does not know yield null
ApiGetWorkItem(b, id) ==
    IF id \in DOMAIN b.items THEN b.items[id]
    ELSE [resp |-> "null", item |-> MkWorkItem(0, FALSE, EmptyFields, FALSE, <<>>)]

BackendFailure == PlainError("backend request failed")

\* one entry of the log of backend and validator calls made while serving a call
Ev(ev, id) == [ev |-> ev, id |-> id]

Ok(val, log) == [ok |-> TRUE, val |-> val, err |-> NoError, log |-> log]
Fail(err, log) == [ok |-> FALSE, val |-> <<>>, err |-> err, log |-> log]

(***************************************************************************)
(* WorkItemService: gated fetch and the hierarchy walker.                  *)
(* Every operation is a function of the backend and its arguments; it      *)
(* yields its outcome and the log of the backend/validator calls it made.  *)
(***************************************************************************)
\* String.prototype.split(sep) for a one-character separator
RECURSIVE Split(_, _)
Split(str, sep) ==
    IF \A i \in 1..Len(str) : str[i] # sep THEN <<str>>
    ELSE LET i == CHOOSE k \in 1..Len(str) : str[k] = sep /\ \A j \in 1..(k - 1) : str[j] # sep
         IN  <<SubSeq(str, 1, i - 1)>> \o Split(SubSeq(str, i + 1, Len(str)), sep)

\* String.prototype.trim
RECURSIVE Trim(_)
Trim(str) ==
    IF Len(str) > 0 /\ Head(str) = " " THEN Trim(Tail(str))
    ELSE IF Len(str) > 0 /\ str[Len(str)] = " " THEN Trim(SubSeq(str, 1, Len(str) - 1))
    ELSE str

\* fields['System.Tags'] ? fields['System.Tags'].split(';').map(t => t.trim()) : []
TagsOf(tags) ==
    IF Len(tags) = 0 THEN <<>>
    ELSE LET parts == Split(tags, ";") IN [k \in 1..Len(parts) |-> Trim(parts[k])]

\* transformWorkItem
transformWorkItem(workItem) ==
    [id |-> workItem.id,
     title |-> workItem.fields.title,
     description |-> workItem.fields.description,
     areaPath |-> workItem.fields.areaPath,
     iterationPath |-> workItem.fields.iterationPath,
     tags |-> TagsOf(workItem.fields.tags),
     workItemType |-> workItem.fields.type,
     state |-> workItem.fields.state,
     assignedTo |-> workItem.fields.assignedTo,
     hasRelations |-> workItem.hasRelations,
     relations |-> workItem.relations,
     fields |-> workItem.fields,
     gdprBlocked |-> FALSE,
     gdprMessage |-> NoError]

\* transformGDPRBlockedWorkItem
transformGDPRBlockedWorkItem(workItem, gdprMessage) ==
    [id |-> workItem.id,
     title |-> <<"[GDPR BLOCKED]", 0>>,
     description |-> <<"", 0>>,
     areaPath |-> <<"", 0>>,
     iterationPath |-> <<"", 0>>,
     tags |-> <<>>,
     workItemType |-> IF workItem.fields.type = NoType THEN <<"U","n","k","n","o","w","n">>
                      ELSE workItem.fields.type,
     state |-> workItem.fields.state,
     assignedTo |-> workItem.fields.assignedTo,
     hasRelations |-> FALSE,
     relations |-> <<>>,
     fields |-> EmptyFields,
     gdprBlocked |-> TRUE,
     gdprMessage |-> gdprMessage]

\* variant of CatchGetWorkItem: every error is rethrown as it is
CatchGetWorkItem_rethrow(workItemId, error) == error

\* the catch clause of getWorkItem: NotFoundError and GDPRComplianceError are
\* rethrown, anything else is replaced by a generic Error quoting its message
CatchGetWorkItem(workItemId, error) ==
    IF error.name \in {"NotFoundError", "GDPRComplianceError"}
    THEN error
    ELSE MkError("Error", "Failed to fetch work item #{id}: {inner}", workItemId, <<>>, error.text)

\* variant of GateFetched: the record is let through unchecked
GateFetched_unchecked(workItem) == [res |-> Return("void"), log |-> <<>>]

\* the gate call of getWorkItem (line 27) and what it adds to the log
GateFetched(workItem) ==
    LET res == validate(workItem)
    IN  [res |-> res,
         log |-> <<Ev(IF res.ok THEN "validate.allowed"
                      ELSE IF res.err.name = "GDPRComplianceError" THEN "validate.blocked"
                      ELSE "validate.failed",
                      workItem.id)>>]

\* WorkItemService.getWorkItem
getWorkItem(b, workItemId) ==
    LET fetched == ApiGetWorkItem(b, workItemId)
        log1 == <<Ev("api.getWorkItem", workItemId)>>
    IN  IF fetched.resp = "throws"
        THEN Fail(CatchGetWorkItem(workItemId, BackendFailure), log1)
        ELSE IF fetched.resp = "null"
        THEN Fail(CatchGetWorkItem(workItemId, NotFoundError("Work item", workItemId)), log1)
        ELSE LET gate == GateFetched(fetched.item)
             IN  IF gate.res.ok
                 THEN Ok(transformWorkItem(fetched.item), log1 \o gate.log)
                 ELSE Fail(CatchGetWorkItem(workItemId, gate.res.err), log1 \o gate.log)

\* parent.relations.filter(rel => rel.rel === 'System.LinkTypes.Hierarchy-Forward')
ChildRelationsOf(relations) == SelectSeq(relations, LAMBDA rel : rel.rel = HierarchyForward)

\* variant of DepthReached: the guard lets one more level through
DepthReached_strict(currentDepth, maxDepth) == currentDepth > maxDepth

\* the depth guard that opens getChildWorkItems and buildWorkItemTree
DepthReached(currentDepth, maxDepth) == currentDepth >= maxDepth

\* variant of SkipFailedChild: a failing child ends the loop
SkipFailedChild_abort(childLog, rest) == [val |-> <<>>, log |-> childLog]

\* the catch around one child (lines 89-91, 160-162): warn, go on with the next relation
SkipFailedChild(childLog, rest) == [val |-> rest.val, log |-> childLog \o rest.log]

\* variant of EmitChild: the siblings come before the child's descendants
EmitChild_siblingsFirst(child, grandchildren, rest) == <<child>> \o rest \o grandchildren

\* allChildren.push(childWorkItem); allChildren.push(...grandchildren) (lines 84-88),
\* followed by what the later relations push
EmitChild(child, grandchildren, rest) == <<child>> \o grandchildren \o rest

RECURSIVE getChildWorkItems(_, _, _, _)
RECURSIVE ChildLoop(_, _, _, _)

\* the for loop of getChildWorkItems over childRelations (lines 75-92)
ChildLoop(b, relations, maxDepth, currentDepth) ==
    IF Len(relations) = 0 THEN [val |-> <<>>, log |-> <<>>]
    ELSE LET relation == Head(relations)
             rest == ChildLoop(b, Tail(relations), maxDepth, currentDepth)
             childIdMatch == TrailingDigits(relation.url)
         IN  IF relation.url = NoUrl THEN rest
             ELSE IF Len(childIdMatch) = 0 THEN rest
             ELSE LET childId == ParseInt(childIdMatch)
                      childWorkItem == getWorkItem(b, childId)
                  IN  IF ~childWorkItem.ok
                      THEN SkipFailedChild(childWorkItem.log, rest)
                      ELSE LET grandchildren ==
                                   getChildWorkItems(b, childId, maxDepth, currentDepth + 1)
                           IN  [val |-> EmitChild(childWorkItem.val, grandchildren.val, rest.val),
                                log |-> childWorkItem.log \o grandchildren.log \o rest.log]

\* WorkItemService.getChildWorkItems
getChildWorkItems(b, parentId, maxDepth, currentDepth) ==
    IF DepthReached(currentDepth, maxDepth) THEN Ok(<<>>, <<>>)
    ELSE LET parent == ApiGetWorkItem(b, parentId)
             log1 == <<Ev("api.getWorkItem", parentId)>>
         IN  IF parent.resp = "throws" THEN Ok(<<>>, log1)
             ELSE IF parent.resp = "null" \/ ~parent.item.hasRelations THEN Ok(<<>>, log1)
             ELSE LET childRelations == ChildRelationsOf(parent.item.relations)
                  IN  IF Len(childRelations) = 0 THEN Ok(<<>>, log1)
                      ELSE LET loop == ChildLoop(b, childRelations, maxDepth, currentDepth)
                           IN  Ok(loop.val, log1 \o loop.log)

\* variant of ChildNodeDepth: the node takes its parent's depth
ChildNodeDepth_parent(currentDepth) == currentDepth

\* depth: currentDepth + 1 of the node pushed by buildWorkItemTree (line 158)
ChildNodeDepth(currentDepth) == currentDepth + 1

MkTree(workItem, children, depth) ==
    [workItem |-> workItem, children |-> children, depth |-> depth]

RECURSIVE buildWorkItemTree(_, _, _, _)
RECURSIVE TreeLoop(_, _, _, _)

\* the for loop of buildWorkItemTree over childRelations (lines 143-163)
TreeLoop(b, relations, maxDepth, currentDepth) ==
    IF Len(relations) = 0 THEN [val |-> <<>>, log |-> <<>>]
    ELSE LET relation == Head(relations)
             rest == TreeLoop(b, Tail(relations), maxDepth, currentDepth)
             childIdMatch == TrailingDigits(relation.url)
         IN  IF relation.url = NoUrl THEN rest
             ELSE IF Len(childIdMatch) = 0 THEN rest
             ELSE LET childId == ParseInt(childIdMatch)
                      childWorkItem == getWorkItem(b, childId)
                  IN  IF ~childWorkItem.ok
                      THEN SkipFailedChild(childWorkItem.log, rest)
                      ELSE LET grandchildren ==
                                   buildWorkItemTree(b, childId, maxDepth, currentDepth + 1)
                           IN  [val |-> <<MkTree(childWorkItem.val, grandchildren.val,
                                                 ChildNodeDepth(currentDepth))>> \o rest.val,
                                log |-> childWorkItem.log \o grandchildren.log \o rest.log]

\* WorkItemService.buildWorkItemTree
buildWorkItemTree(b, parentId, maxDepth, currentDepth) ==
    IF DepthReached(currentDepth, maxDepth) THEN Ok(<<>>, <<>>)
    ELSE LET parent == ApiGetWorkItem(b, parentId)
             log1 == <<Ev("api.getWorkItem", parentId)>>
         IN  IF parent.resp = "throws" THEN Ok(<<>>, log1)
             ELSE IF parent.resp = "null" \/ ~parent.item.hasRelations THEN Ok(<<>>, log1)
             ELSE LET loop == TreeLoop(b, ChildRelationsOf(parent.item.relations),
                                       maxDepth, currentDepth)
                  IN  Ok(loop.val, log1 \o loop.log)

\* WorkItemService.getWorkItemTree
getWorkItemTree(b, rootId, maxDepth) ==
    LET rootWorkItem == getWorkItem(b, rootId)
    IN  IF ~rootWorkItem.ok THEN Fail(rootWorkItem.err, rootWorkItem.log)
        ELSE LET children == buildWorkItemTree(b, rootId, maxDepth, 0)
             IN  Ok(MkTree(rootWorkItem.val, children.val, 0), rootWorkItem.log \o children.log)

(***************************************************************************)
(* WorkItemService: the commit aggregator.                                 *)
(***************************************************************************)
\* String.prototype.includes
Includes(str, sub) ==
    \E i \in 1..(Len(str) - Len(sub) + 1) : SubSeq(str, i, i + Len(sub) - 1) = sub

IsHexChar(c) ==
    IsDigit(c) \/ LowerChar(c) \in {"a", "b", "c", "d", "e", "f"}

\* positions i < j of two slashes with a non-empty slash-free segment between them
SegmentBounds(url) ==
    {p \in (1..Len(url)) \X (1..Len(url)) :
        /\ url[p[1]] = "/" /\ url[p[2]] = "/" /\ p[1] + 1 < p[2]
        /\ \A k \in (p[1] + 1)..(p[2] - 1) : url[k] # "/"}

LeftmostMatch(matches) == CHOOSE p \in matches : \A q \in matches : p[1] <= q[1]

\* relation.url.match(/\/([^/]+)\/([a-f0-9]{40})/i)
MatchCommitUrl(url) ==
    LET matches == {p \in SegmentBounds(url) :
                       /\ p[2] + HashLen <= Len(url)
                       /\ \A k \in (p[2] + 1)..(p[2] + HashLen) : IsHexChar(url[k])}
    IN  IF matches = {} THEN [matched |-> FALSE, repositoryId |-> <<>>, commitId |-> <<>>]
        ELSE LET p == LeftmostMatch(matches)
             IN  [matched |-> TRUE,
                  repositoryId |-> SubSeq(url, p[1] + 1, p[2] - 1),
                  commitId |-> SubSeq(url, p[2] + 1, p[2] + HashLen)]

\* the digits that start the string (the greedy \d+ of the pull-request pattern)
RECURSIVE LeadingDigits(_)
LeadingDigits(str) ==
    IF Len(str) = 0 \/ ~IsDigit(Head(str)) THEN <<>>
    ELSE <<Head(str)>> \o LeadingDigits(Tail(str))

\* relation.url.match(/\/([^/]+)\/(\d+)/)
MatchPrUrl(url) ==
    LET matches == {p \in SegmentBounds(url) : p[2] < Len(url) /\ IsDigit(url[p[2] + 1])}
    IN  IF matches = {} THEN [matched |-> FALSE, repositoryId |-> <<>>, pullRequestId |-> 0]
        ELSE LET p == LeftmostMatch(matches)
             IN  [matched |-> TRUE,
                  repositoryId |-> SubSeq(url, p[1] + 1, p[2] - 1),
                  pullRequestId |-> ParseInt(LeadingDigits(SubSeq(url, p[2] + 1, Len(url))))]

\* gitApi.getCommit(commitId, repositoryId); the server matches hashes case-insensitively
GitGetCommit(b, commitId, repositoryId) ==
    IF ToLowerCase(commitId) \in DOMAIN b.git.commits
    THEN b.git.commits[ToLowerCase(commitId)]
    ELSE [resp |-> "null", commit |-> MkCommit(<<>>, 0, "")]

\* gitApi.getPullRequestCommits(repositoryId, pullRequestId)
GitGetPullRequestCommits(b, repositoryId, pullRequestId) ==
    IF pullRequestId \in DOMAIN b.git.prs THEN b.git.prs[pullRequestId]
    ELSE [resp |-> "throws", commits |-> <<>>]

\* the CommitDetails built from a GitCommitRef: commitId and date fall back
CommitDetails(b, commit, fallbackId, repositoryId) ==
    [commitId |-> IF commit.commitId = <<>> THEN fallbackId ELSE commit.commitId,
     date |-> IF commit.date = 0 THEN b.git.now ELSE commit.date,
     comment |-> commit.comment,
     repositoryId |-> repositoryId]

\* variant of SkipFailedRelation: a failing fetch ends the loop
SkipFailedRelation_abort(relationLog, rest) == [val |-> <<>>, log |-> relationLog]

\* the catch around one relation (lines 219-221, 280-282): warn, go on with the next one
SkipFailedRelation(relationLog, rest) == [val |-> rest.val, log |-> relationLog \o rest.log]

\* the for loop of getLinkedCommits over commitRelations (lines 196-222)
RECURSIVE LinkedCommitLoop(_, _)
LinkedCommitLoop(b, relations) ==
    IF Len(relations) = 0 THEN [val |-> <<>>, log |-> <<>>]
    ELSE LET relation == Head(relations)
             rest == LinkedCommitLoop(b, Tail(relations))
             m == MatchCommitUrl(relation.url)
         IN  IF relation.url = NoUrl \/ ~m.matched THEN rest
             ELSE LET got == GitGetCommit(b, m.commitId, m.repositoryId)
                      log1 == <<Ev("gitApi.getCommit", 0)>>
                  IN  IF got.resp = "item"
                      THEN [val |-> <<CommitDetails(b, got.commit, m.commitId, m.repositoryId)>>
                                    \o rest.val,
                            log |-> log1 \o rest.log]
                      ELSE IF got.resp = "throws" THEN SkipFailedRelation(log1, rest)
                      ELSE [val |-> rest.val, log |-> log1 \o rest.log]

\* WorkItemService.getLinkedCommits
getLinkedCommits(b, workItemId) ==
    LET workItem == ApiGetWorkItem(b, workItemId)
        log1 == <<Ev("api.getWorkItem", workItemId)>>
    IN  IF workItem.resp # "item" \/ ~workItem.item.hasRelations THEN Ok(<<>>, log1)
        ELSE LET commitRelations ==
                     SelectSeq(workItem.item.relations,
                               LAMBDA rel : rel.rel = ArtifactLink /\ Includes(rel.url, CommitUrn))
                 loop == LinkedCommitLoop(b, commitRelations)
             IN  Ok(loop.val, log1 \o loop.log)

\* the flattening of one pull request's commits (lines 267-279)
PrCommitDetails(b, commits, repositoryId) ==
    [i \in 1..Len(commits) |-> CommitDetails(b, commits[i], <<>>, repositoryId)]

\* the for loop of getPullRequestCommits over prRelations (lines 255-283)
RECURSIVE PullRequestLoop(_, _)
PullRequestLoop(b, relations) ==
    IF Len(relations) = 0 THEN [val |-> <<>>, log |-> <<>>]
    ELSE LET relation == Head(relations)
             rest == PullRequestLoop(b, Tail(relations))
             m == MatchPrUrl(relation.url)
         IN  IF relation.url = NoUrl \/ ~m.matched THEN rest
             ELSE LET got == GitGetPullRequestCommits(b, m.repositoryId, m.pullRequestId)
                      log1 == <<Ev("gitApi.getPullRequestCommits", m.pullRequestId)>>
                  IN  IF got.resp = "list"
                      THEN [val |-> PrCommitDetails(b, got.commits, m.repositoryId) \o rest.val,
                            log |-> log1 \o rest.log]
                      ELSE IF got.resp = "throws" THEN SkipFailedRelation(log1, rest)
                      ELSE [val |-> rest.val, log |-> log1 \o rest.log]

\* WorkItemService.getPullRequestCommits
getPullRequestCommits(b, workItemId) ==
    LET workItem == ApiGetWorkItem(b, workItemId)
        log1 == <<Ev("api.getWorkItem", workItemId)>>
    IN  IF workItem.resp # "item" \/ ~workItem.item.hasRelations THEN Ok(<<>>, log1)
        ELSE LET prRelations ==
                     SelectSeq(workItem.item.relations,
                               LAMBDA rel : rel.rel = ArtifactLink /\ Includes(rel.url, PullRequestUrn))
                 loop == PullRequestLoop(b, prRelations)
             IN  Ok(loop.val, log1 \o loop.log)

RECURSIVE deduplicateCommits_keepLast(_)
RECURSIVE deduplicateCommits(_)
\* variant of deduplicateCommits: the last record of every commitId
deduplicateCommits_keepLast(commits) ==
    IF Len(commits) = 0 THEN <<>>
    ELSE IF \E i \in 2..Len(commits) : commits[i].commitId = Head(commits).commitId
         THEN deduplicateCommits_keepLast(Tail(commits))
         ELSE <<Head(commits)>> \o deduplicateCommits_keepLast(Tail(commits))

\* WorkItemService.deduplicateCommits: the first record of every commitId
deduplicateCommits(commits) ==
    IF Len(commits) = 0 THEN <<>>
    ELSE LET init == deduplicateCommits(SubSeq(commits, 1, Len(commits) - 1))
             commit == commits[Len(commits)]
         IN  IF \E i \in 1..Len(init) : init[i].commitId = commit.commitId
             THEN init ELSE Append(init, commit)

\* variant of SortByDateDesc: the records stay in the order of the concatenation
SortByDateDesc_unsorted(commits) == commits

\* Array.prototype.sort((a, b) => b.date - a.date): stable, newest first
RECURSIVE SortByDateDesc(_)
SortByDateDesc(commits) ==
    IF Len(commits) = 0 THEN <<>>
    ELSE LET init == SortByDateDesc(SubSeq(commits, 1, Len(commits) - 1))
             commit == commits[Len(commits)]
             \* the new record goes behind every record that is not older
             k == Cardinality({i \in 1..Len(init) : init[i].date >= commit.date})
         IN  SubSeq(init, 1, k) \o <<commit>> \o SubSeq(init, k + 1, Len(init))

\* WorkItemService.getAllCommits
getAllCommits(b, workItemId) ==
    LET directCommits == getLinkedCommits(b, workItemId)
        prCommits == getPullRequestCommits(b, workItemId)
        allCommits == directCommits.val \o prCommits.val
        uniqueCommits == deduplicateCommits(allCommits)
    IN  Ok(SortByDateDesc(uniqueCommits), directCommits.log \o prCommits.log)

(***************************************************************************)
(* WorkItemService.getMyWorkItems                                          *)
(***************************************************************************)
BatchSize == 200   \* const batchSize = 200

Min(a, b) == IF a < b THEN a ELSE b

\* api.getWorkItems(batchIds, ..., project): rejects when one of the ids makes the
\* server fail, and leaves out ids the server does not know
ApiGetWorkItems(b, batchIds) ==
    IF \E i \in 1..Len(batchIds) : ApiGetWorkItem(b, batchIds[i]).resp = "throws"
    THEN [resp |-> "throws", items |-> <<>>]
    ELSE [resp |-> "list",
          items |-> LET known == SelectSeq(batchIds,
                                           LAMBDA id : ApiGetWorkItem(b, id).resp = "item")
                    IN  [i \in 1..Len(known) |-> ApiGetWorkItem(b, known[i]).item]]

\* one api.getWorkItems call and the ids it asked for
BatchEv(batchIds) == [ev |-> "api.getWorkItems", id |-> Len(batchIds), ids |-> batchIds]

\* variant of BatchOf: every batch asks for all the ids
BatchOf_whole(workItemIds, i) == workItemIds

\* workItemIds.slice(i, i + batchSize)
BatchOf(workItemIds, i) == SubSeq(workItemIds, i + 1, Min(i + BatchSize, Len(workItemIds)))

\* the batch loop (lines 353-369), from offset i (0-based) on; fails when a batch fails
RECURSIVE FetchBatches(_, _, _)
FetchBatches(b, workItemIds, i) ==
    IF i >= Len(workItemIds) THEN [ok |-> TRUE, val |-> <<>>, log |-> <<>>]
    ELSE LET batchIds == BatchOf(workItemIds, i)
             batch == ApiGetWorkItems(b, batchIds)
             log1 == <<BatchEv(batchIds)>>
         IN  IF batch.resp = "throws" THEN [ok |-> FALSE, val |-> <<>>, log |-> log1]
             ELSE LET rest == FetchBatches(b, workItemIds, i + BatchSize)
                  IN  [ok |-> rest.ok, val |-> batch.items \o rest.val, log |-> log1 \o rest.log]

\* the transform loop (lines 382-395)
RECURSIVE TransformLoop(_)
TransformLoop(workItems) ==
    IF Len(workItems) = 0 THEN [val |-> <<>>, log |-> <<>>]
    ELSE LET workItem == Head(workItems)
             gate == GateFetched(workItem)
             rest == TransformLoop(Tail(workItems))
         IN  [val |-> (IF gate.res.ok THEN <<transformWorkItem(workItem)>>
                       ELSE IF gate.res.err.name = "GDPRComplianceError"
                       THEN <<transformGDPRBlockedWorkItem(workItem, gate.res.err)>>
                       ELSE <<>>) \o rest.val,
              log |-> gate.log \o rest.log]

\* the catch clause of getMyWorkItems (lines 403-406)
CatchGetMyWorkItems(error) ==
    MkError("Error", "Failed to fetch assigned work items: {inner}", 0, <<>>, error.text)

\* WorkItemService.getMyWorkItems
getMyWorkItems(b, maxResults) ==
    LET log1 == <<Ev("api.queryByWiql", 0)>>
    IN  IF b.wiql.resp = "throws" THEN Fail(CatchGetMyWorkItems(BackendFailure), log1)
        ELSE IF Len(b.wiql.ids) = 0 THEN Ok(<<>>, log1)
        ELSE LET workItemIds == SubSeq(b.wiql.ids, 1, Min(maxResults, Len(b.wiql.ids)))
                 fetched == FetchBatches(b, workItemIds, 0)
             IN  IF ~fetched.ok
                 THEN Fail(CatchGetMyWorkItems(BackendFailure), log1 \o fetched.log)
                 ELSE IF Len(fetched.val) = 0 THEN Ok(<<>>, log1 \o fetched.log)
                 ELSE LET transformed == TransformLoop(fetched.val)
                      IN  Ok(transformed.val, log1 \o fetched.log \o transformed.log)

(***************************************************************************)
(* The program: main() and the request loop of the server.                 *)
(***************************************************************************)
\* values of config.gdprBlockedWorkItemTypes the server is started with
ServiceBlockLists == {<<TBugUpper>>, <<TTask>>}

MkConfig(blockedTypes) == [gdprBlockedWorkItemTypes |-> blockedTypes]

MkCall(op, id, maxDepth, res) == [op |-> op, id |-> id, maxDepth |-> maxDepth, res |-> res]
NoCall == MkCall("none", 0, 0, Ok(<<>>, <<>>))

MkGateCall(op, workItem, type, wasInitialized, res) ==
    [op |-> op, workItem |-> workItem, type |-> type, wasInitialized |-> wasInitialized, res |-> res]
NoGateCall == MkGateCall("none", MkWorkItem(0, FALSE, EmptyFields, FALSE, <<>>), NoType, FALSE, Return("void"))

Init ==
    /\ blockedWorkItemTypes = {}
    /\ initialized = FALSE
    /\ pc = "start"
    /\ config \in {MkConfig(l) : l \in ServiceBlockLists}
    /\ backend \in Backends
    /\ call = NoCall
    /\ gateCall = NoGateCall
    /\ prevGateCall = NoGateCall

\* variant of MainInitGdpr: main goes on without configuring the validator
MainInitGdpr_skipped ==
    /\ pc = "start"
    /\ pc' = "gdpr"
    /\ UNCHANGED <<blockedWorkItemTypes, initialized, config, backend, call, gateCall, prevGateCall>>

\* main: GDPRValidator.initialize(config.gdprBlockedWorkItemTypes)
MainInitGdpr ==
    /\ pc = "start"
    /\ blockedWorkItemTypes' = LowerCasedSet(config.gdprBlockedWorkItemTypes)
    /\ initialized' = TRUE
    /\ pc' = "gdpr"
    /\ UNCHANGED <<config, backend, call, gateCall, prevGateCall>>

\* main: await AzureDevOpsClient.initialize(config) succeeds
MainConnect ==
    /\ pc = "gdpr"
    /\ pc' = "connected"
    /\ UNCHANGED <<blockedWorkItemTypes, initialized, config, backend, call, gateCall, prevGateCall>>

\* main: AzureDevOpsClient.initialize throws AuthenticationError, process.exit(1)
MainConnectFails ==
    /\ pc = "gdpr"
    /\ pc' = "exited"
    /\ UNCHANGED <<blockedWorkItemTypes, initialized, config, backend, call, gateCall, prevGateCall>>

\* main: await server.start()
MainStart ==
    /\ pc = "connected"
    /\ pc' = "serving"
    /\ UNCHANGED <<blockedWorkItemTypes, initialized, config, backend, call, gateCall, prevGateCall>>

\* variant of Serve: answering a request empties the validator's set
Serve_clearsBlockSet(c) ==
    /\ pc = "serving"
    /\ call.op = "none"
    /\ call' = c
    /\ blockedWorkItemTypes' = {}
    /\ UNCHANGED <<initialized, pc, config, backend, gateCall, prevGateCall>>

\* a request is answered by one service operation; the next one is taken after Deliver
Serve(c) ==
    /\ pc = "serving"
    /\ call.op = "none"
    /\ call' = c
    /\ UNCHANGED <<blockedWorkItemTypes, initialized, pc, config, backend, gateCall, prevGateCall>>

GetWorkItem ==
    \E id \in Ids : Serve(MkCall("getWorkItem", id, 0, getWorkItem(backend, id)))

GetChildWorkItems ==
    \E id \in Ids, maxDepth \in 0..MaxDepthBound :
        Serve(MkCall("getChildWorkItems", id, maxDepth, getChildWorkItems(backend, id, maxDepth, 0)))

GetWorkItemTree ==
    \E id \in Ids, maxDepth \in 0..MaxDepthBound :
        Serve(MkCall("getWorkItemTree", id, maxDepth, getWorkItemTree(backend, id, maxDepth)))

GetLinkedCommits ==
    \E id \in Ids : Serve(MkCall("getLinkedCommits", id, 0, getLinkedCommits(backend, id)))

GetPullRequestCommits ==
    \E id \in Ids : Serve(MkCall("getPullRequestCommits", id, 0, getPullRequestCommits(backend, id)))

GetAllCommits ==
    \E id \in Ids : Serve(MkCall("getAllCommits", id, 0, getAllCommits(backend, id)))

\* the argument of getMyWorkItems is kept in the id field of the call
GetMyWorkItems ==
    \E maxResults \in 0..MaxId :
        Serve(MkCall("getMyWorkItems", maxResults, 0, getMyWorkItems(backend, maxResults)))

\* the handler returns the response; the server takes the next request
Deliver ==
    /\ call.op # "none"
    /\ call' = NoCall
    /\ UNCHANGED <<blockedWorkItemTypes, initialized, pc, config, backend, gateCall, prevGateCall>>

Next ==
    \/ MainInitGdpr
    \/ MainConnect
    \/ MainConnectFails
    \/ MainStart
    \/ GetWorkItem
    \/ GetChildWorkItems
    \/ GetWorkItemTree
    \/ GetLinkedCommits
    \/ GetPullRequestCommits
    \/ GetAllCommits
    \/ GetMyWorkItems
    \/ Deliver

Spec == Init /\ [][Next]_vars

(***************************************************************************)
(* GDPRValidator on its own: its methods applied directly to records       *)
(* drawn from a bounded set, before and after initialize.                  *)
(***************************************************************************)
GateRecords ==
    {MkWorkItem(id, TRUE, MkFields(t, id), FALSE, <<>>) :
        id \in 0..MaxGateId, t \in TypeNames \cup {NoType}}
    \cup {MkWorkItem(id, FALSE, EmptyFields, FALSE, <<>>) : id \in 0..MaxGateId}

InitGate ==
    /\ blockedWorkItemTypes = {}
    /\ initialized = FALSE
    /\ pc = "gate"
    /\ config = MkConfig(<<>>)
    /\ backend = MkBackend([i \in Ids |-> "Task"], "chain", "ok")
    /\ call = NoCall
    /\ gateCall = NoGateCall
    /\ prevGateCall = NoGateCall

\* GDPRValidator.initialize(blockedTypes), called once
GateInitialize ==
    \E blockedTypes \in BlockLists :
        /\ ~initialized
        /\ config' = MkConfig(blockedTypes)
        /\ blockedWorkItemTypes' = LowerCasedSet(blockedTypes)
        /\ initialized' = TRUE
        /\ UNCHANGED <<pc, backend, call, gateCall, prevGateCall>>

GateCalled(c) ==
    /\ gateCall' = c
    /\ prevGateCall' = gateCall
    /\ UNCHANGED <<blockedWorkItemTypes, initialized, pc, config, backend, call>>

GateValidate ==
    \E workItem \in GateRecords :
        GateCalled(MkGateCall("validate", workItem, NoType, initialized, validate(workItem)))

GateIsBlocked ==
    \E type \in TypeNames :
        GateCalled(MkGateCall("isBlocked", NoGateCall.workItem, type, initialized, isBlocked(type)))

GateGetBlockedTypes ==
    GateCalled(MkGateCall("getBlockedTypes", NoGateCall.workItem, NoType, initialized, getBlockedTypes))

NextGate ==
    \/ GateInitialize
    \/ GateValidate
    \/ GateIsBlocked
    \/ GateGetBlockedTypes

SpecGate == InitGate /\ [][NextGate]_vars

(***************************************************************************)
(* RepositoryService: repository references and file retrieval.            *)
(***************************************************************************)
MaxFileSize == 3      \* file sizes 0..MaxFileSize, ceilings 1..MaxFileSize
MaxPullRequestId == 2 \* pull request ids 1..MaxPullRequestId

Slash == <<"/">>
Foo == <<"F","o","o">>
Proj == <<"P","r","o","j">>
ProjX == <<"X">>
GuidLower == <<"a","1","b","2","c","3","d","4","-","e","5","f","6","-","7","8","9","0","-",
               "a","b","c","d","-","e","f","1","2","3","4","5","6","7","8","9","0">>
GuidUpper == <<"A","1","B","2","C","3","D","4","-","E","5","F","6","-","7","8","9","0","-",
               "A","B","C","D","-","E","F","1","2","3","4","5","6","7","8","9","0">>

\* the repositoryId arguments of the tool calls: a bare name, a scoped path, GUIDs in
\* both cases, two strings that miss the GUID pattern by one character, a path
\* that ends in the separator
RepositoryIds ==
    {Foo, Proj \o Slash \o Foo, GuidLower, GuidUpper,
     [GuidLower EXCEPT ![Len(GuidLower)] = "g"], GuidLower \o <<"0">>, Foo \o Slash}

\* the digit groups of /^[0-9a-f]{8}-[0-9a-f]{4}-[0-9a-f]{4}-[0-9a-f]{4}-[0-9a-f]{12}$/i
GuidGroups == <<8, 4, 4, 4, 12>>

\* str is made of the groups of hex digits, joined by "-", and of nothing else
RECURSIVE MatchHexGroups(_, _)
MatchHexGroups(str, groups) ==
    LET n == Head(groups)
    IN  /\ Len(str) >= n
        /\ \A k \in 1..n : IsHexChar(str[k])
        /\ IF Len(groups) = 1 THEN Len(str) = n
           ELSE /\ Len(str) > n
                /\ str[n + 1] = "-"
                /\ MatchHexGroups(SubSeq(str, n + 2, Len(str)), Tail(groups))

\* variant of IsGuid: the pattern without its i flag
IsGuid_caseSensitive(repositoryId) ==
    MatchHexGroups(repositoryId, GuidGroups) /\ repositoryId = ToLowerCase(repositoryId)

\* repositoryId.match(/^...$/i) of line 13
IsGuid(repositoryId) == MatchHexGroups(repositoryId, GuidGroups)

\* variant of resolveRepositoryId: the reference is used as it was given
resolveRepositoryId_asGiven(cfg, repositoryId) == repositoryId

\* RepositoryService.resolveRepositoryId (PullRequestService holds the same text)
resolveRepositoryId(cfg, repositoryId) ==
    IF Includes(repositoryId, Slash) THEN repositoryId
    ELSE IF IsGuid(repositoryId) THEN repositoryId
    ELSE cfg.azureDevOpsProject \o Slash \o repositoryId

MkRepoConfig(project, maxFileSizeBytes) ==
    [gdprBlockedWorkItemTypes |-> <<TBug>>,
     azureDevOpsProject |-> project,
     maxFileSizeBytes |-> maxFileSizeBytes]

RepoConfigs == {MkRepoConfig(p, m) : p \in {Proj, ProjX}, m \in 1..MaxFileSize}

\* the git side as the file tools see it: the repository Proj/Foo, known by path and
\* by GUID, holds the file /f on the branches main and feature
BranchMain == <<"m","a","i","n">>
BranchFeature == <<"f","e","a","t","u","r","e">>
RefsHeads == <<"r","e","f","s","/","h","e","a","d","s","/">>
FilePath == <<"/","f">>
FileText == <<"h","i">>

MkRepoBackend(itemKind, size, textKind, prKind) ==
    [item |-> [resp |-> itemKind, size |-> size],
     text |-> [resp |-> textKind, content |-> FileText],
     pr |-> [resp |-> IF prKind \in {"null", "throws"} THEN prKind ELSE "item",
             sourceRefName |-> IF prKind = "ok" THEN RefsHeads \o BranchFeature ELSE <<>>]]

\* a size of 0 stands for metadata that reports no size
RepoBackends ==
    {MkRepoBackend("item", size, t, p) :
        size \in 0..MaxFileSize, t \in {"ok", "throws"}, p \in {"ok", "noRef", "null", "throws"}}
    \cup {MkRepoBackend(i, 0, "ok", p) :
        i \in {"null", "throws"}, p \in {"ok", "noRef", "null", "throws"}}

KnownRepository(repositoryId) ==
    repositoryId = Proj \o Slash \o Foo \/ ToLowerCase(repositoryId) = GuidLower

\* api.getItem(repo, path, ..., {version: branch}): null for what the server does not hold
GitGetItem(b, repositoryId, path, version) ==
    IF KnownRepository(repositoryId) /\ path = FilePath /\ version \in {BranchMain, BranchFeature}
    THEN b.item ELSE [resp |-> "null", size |-> 0]

\* api.getItemText(repo, path, ..., {version: branch})
GitGetItemText(b, repositoryId, path, version) ==
    IF KnownRepository(repositoryId) /\ path = FilePath /\ version \in {BranchMain, BranchFeature}
    THEN b.text ELSE [resp |-> "throws", content |-> <<>>]

\* api.getPullRequest(repo, pullRequestId, project): pull request 1 exists
GitGetPullRequest(b, repositoryId, pullRequestId) ==
    IF KnownRepository(repositoryId) /\ pullRequestId = 1
    THEN b.pr ELSE [resp |-> "null", sourceRefName |-> <<>>]

RepoEv(ev, repositoryId, path, version) ==
    [ev |-> ev, repositoryId |-> repositoryId, path |-> path, version |-> version]

FileSizeLimitError(filePath, fileSize, maxSize) ==
    [name |-> "FileSizeLimitError",
     text |-> "File {filePath} size ({fileSize} bytes) exceeds the maximum allowed size ({maxSize} bytes).",
     filePath |-> filePath, fileSize |-> fileSize, maxSize |-> maxSize]

\* the catch clause of getFileContent (lines 83-89)
CatchGetFileContent(filePath, error) ==
    IF error.name \in {"FileSizeLimitError", "NotFoundError"} THEN error
    ELSE MkError("Error", "Failed to fetch file {type}: {inner}", 0, filePath, error.text)

\* variant of ExceedsLimit: the size is never held against the ceiling
ExceedsLimit_never(itemSize, maxFileSizeBytes) == FALSE

\* itemSize && itemSize > config.maxFileSizeBytes
ExceedsLimit(itemSize, maxFileSizeBytes) == itemSize # 0 /\ itemSize > maxFileSizeBytes

\* RepositoryService.getFileContent
getFileContent(b, cfg, repositoryId, filePath, branch) ==
    LET resolvedRepoId == resolveRepositoryId(cfg, repositoryId)
        normalizedPath == IF Len(filePath) > 0 /\ Head(filePath) = "/"
                          THEN filePath ELSE Slash \o filePath
        item == GitGetItem(b, resolvedRepoId, normalizedPath, branch)
        log1 == <<RepoEv("gitApi.getItem", resolvedRepoId, normalizedPath, branch)>>
    IN  IF item.resp = "throws"
        THEN Fail(CatchGetFileContent(filePath, BackendFailure), log1)
        ELSE IF item.resp = "null"
        THEN Fail(CatchGetFileContent(filePath, NotFoundError("File", filePath)), log1)
        ELSE IF ExceedsLimit(item.size, cfg.maxFileSizeBytes)
        THEN Fail(CatchGetFileContent(filePath,
                      FileSizeLimitError(filePath, item.size, cfg.maxFileSizeBytes)), log1)
        ELSE LET itemContent == GitGetItemText(b, resolvedRepoId, normalizedPath, branch)
                 log2 == log1 \o <<RepoEv("gitApi.getItemText", resolvedRepoId, normalizedPath, branch)>>
             IN  IF itemContent.resp = "throws"
                 THEN Fail(CatchGetFileContent(filePath, BackendFailure), log2)
                 ELSE Ok([path |-> filePath,
                          content |-> itemContent.content,
                          encoding |-> "utf-8",
                          size |-> IF item.size # 0 THEN item.size ELSE Len(itemContent.content),
                          repositoryId |-> repositoryId,
                          branch |-> branch], log2)

\* String.prototype.replace(pattern, ''): the first occurrence of the pattern is removed
ReplaceFirst(str, pattern) ==
    LET at == {i \in 1..(Len(str) - Len(pattern) + 1) : SubSeq(str, i, i + Len(pattern) - 1) = pattern}
    IN  IF at = {} THEN str
        ELSE LET i == CHOOSE k \in at : \A h \in at : k <= h
             IN  SubSeq(str, 1, i - 1) \o SubSeq(str, i + Len(pattern), Len(str))

\* variant of SourceBranch: the ref name is passed on as it is
SourceBranch_unstripped(sourceRefName) == sourceRefName

\* pr.sourceRefName.replace('refs/heads/', '')
SourceBranch(sourceRefName) == ReplaceFirst(sourceRefName, RefsHeads)

\* the catch clause of getFileFromPullRequest (lines 113-119)
CatchGetFileFromPullRequest(error) ==
    IF error.name \in {"FileSizeLimitError", "NotFoundError"} THEN error
    ELSE MkError("Error", "Failed to fetch file from pull request: {inner}", 0, <<>>, error.text)

\* RepositoryService.getFileFromPullRequest
getFileFromPullRequest(b, cfg, repositoryId, pullRequestId, filePath) ==
    LET resolvedRepoId == resolveRepositoryId(cfg, repositoryId)
        pr == GitGetPullRequest(b, resolvedRepoId, pullRequestId)
        log1 == <<RepoEv("gitApi.getPullRequest", resolvedRepoId, <<>>, NumToStr(pullRequestId))>>
    IN  IF pr.resp = "throws"
        THEN Fail(CatchGetFileFromPullRequest(BackendFailure), log1)
        ELSE IF pr.resp = "null" \/ pr.sourceRefName = <<>>
        THEN Fail(CatchGetFileFromPullRequest(NotFoundError("Pull request", pullRequestId)), log1)
        ELSE LET sourceBranch == SourceBranch(pr.sourceRefName)
                 file == getFileContent(b, cfg, repositoryId, filePath, sourceBranch)
             IN  IF file.ok THEN Ok(file.val, log1 \o file.log)
                 ELSE Fail(CatchGetFileFromPullRequest(file.err), log1 \o file.log)

(***************************************************************************)
(* The file tools on their own: RepositoryService applied to arguments     *)
(* drawn from bounded sets, on every git backend and configuration.        *)
(***************************************************************************)
MkRepoCall(op, repositoryId, filePath, branch, pullRequestId, res) ==
    [op |-> op, repositoryId |-> repositoryId, filePath |-> filePath, branch |-> branch,
     pullRequestId |-> pullRequestId, res |-> res]

InitRepo ==
    /\ blockedWorkItemTypes = {}
    /\ initialized = FALSE
    /\ pc = "repo"
    /\ config \in RepoConfigs
    /\ backend \in RepoBackends
    /\ call = NoCall
    /\ gateCall = NoGateCall
    /\ prevGateCall = NoGateCall

RepoCalled(c) ==
    /\ pc = "repo"
    /\ call.op = "none"
    /\ call' = c
    /\ UNCHANGED <<blockedWorkItemTypes, initialized, pc, config, backend, gateCall, prevGateCall>>

ResolveRepositoryId ==
    \E repositoryId \in RepositoryIds :
        RepoCalled(MkRepoCall("resolveRepositoryId", repositoryId, <<>>, <<>>, 0,
                              Ok(resolveRepositoryId(config, repositoryId), <<>>)))

GetFileContent ==
    \E repositoryId \in RepositoryIds, filePath \in {FilePath, Tail(FilePath)},
       branch \in {BranchMain, BranchFeature} :
        RepoCalled(MkRepoCall("getFileContent", repositoryId, filePath, branch, 0,
                              getFileContent(backend, config, repositoryId, filePath, branch)))

GetFileFromPullRequest ==
    \E repositoryId \in RepositoryIds, filePath \in {FilePath, Tail(FilePath)},
       pullRequestId \in 1..MaxPullRequestId :
        RepoCalled(MkRepoCall("getFileFromPullRequest", repositoryId, filePath, <<>>, pullRequestId,
                              getFileFromPullRequest(backend, config, repositoryId,
                                                     pullRequestId, filePath)))

NextRepo ==
    \/ ResolveRepositoryId
    \/ GetFileContent
    \/ GetFileFromPullRequest
    \/ Deliver

SpecRepo == InitRepo /\ [][NextRepo]_vars

(***************************************************************************)
(* PullRequestService.getPullRequest                                       *)
(***************************************************************************)
PrRepositoryIds == RepositoryIds \cup {Proj \o Slash \o Foo \o Slash \o Foo}

PrAnswers == {"pr", "null", "throws"}

\* what api.getPullRequest answers to a bare name with the project, to a scoped path with
\* the project, and to a call without the project
PrBackends == [name : PrAnswers, path : PrAnswers, bare : PrAnswers]

NoProject == <<>>

\* api.getPullRequest(repositoryId, pullRequestId, project?)
ApiGetPullRequest(b, repositoryId, pullRequestId, project) ==
    [resp |-> IF project = NoProject THEN b.bare
              ELSE IF Includes(repositoryId, Slash) THEN b.path ELSE b.name,
     pr |-> [pullRequestId |-> pullRequestId, sourceRefName |-> RefsHeads \o BranchFeature]]

PrEv(repositoryId, pullRequestId, project) ==
    [ev |-> "gitApi.getPullRequest", repositoryId |-> repositoryId,
     pullRequestId |-> pullRequestId, project |-> project]

\* the position of the first "/" of str, or Len(str) + 1
FirstSlash(str) ==
    IF Includes(str, Slash)
    THEN CHOOSE i \in 1..Len(str) : str[i] = "/" /\ \A j \in 1..(i - 1) : str[j] # "/"
    ELSE Len(str) + 1

\* repositoryId.split('/')[1]
SecondSegment(repositoryId) ==
    LET rest == SubSeq(repositoryId, FirstSlash(repositoryId) + 1, Len(repositoryId))
    IN  SubSeq(rest, 1, FirstSlash(rest) - 1)

\* variant of StillMissing: the next attempt is made whatever the last one returned
StillMissing_always(found) == TRUE

\* the !pr test before attempts 2 and 3 and before the throw
StillMissing(found) == ~found

\* PullRequestService.getPullRequest
getPullRequest(b, cfg, repositoryId, pullRequestId) ==
    LET resolvedRepoId == resolveRepositoryId(cfg, repositoryId)
        repoNameOnly == IF Includes(repositoryId, Slash) THEN SecondSegment(repositoryId)
                        ELSE repositoryId
        project == cfg.azureDevOpsProject
        attempt1 == ApiGetPullRequest(b, repoNameOnly, pullRequestId, project)
        log1 == <<PrEv(repoNameOnly, pullRequestId, project)>>
        found1 == attempt1.resp = "pr"
        try2 == StillMissing(found1) /\ resolvedRepoId # repoNameOnly
        attempt2 == ApiGetPullRequest(b, resolvedRepoId, pullRequestId, project)
        log2 == IF try2 THEN log1 \o <<PrEv(resolvedRepoId, pullRequestId, project)>> ELSE log1
        found2 == IF try2 /\ attempt2.resp # "throws" THEN attempt2.resp = "pr" ELSE found1
        try3 == StillMissing(found2)
        attempt3 == ApiGetPullRequest(b, repoNameOnly, pullRequestId, NoProject)
        log3 == IF try3 THEN log2 \o <<PrEv(repoNameOnly, pullRequestId, NoProject)>> ELSE log2
        found3 == IF try3 /\ attempt3.resp # "throws" THEN attempt3.resp = "pr" ELSE found2
        pr == IF try3 /\ attempt3.resp = "pr" THEN attempt3.pr
              ELSE IF try2 /\ attempt2.resp = "pr" THEN attempt2.pr ELSE attempt1.pr
    IN  IF StillMissing(found3)
        THEN Fail(NotFoundError("Pull request", pullRequestId), log3)
        ELSE Ok([pullRequestId |-> pr.pullRequestId,
                 sourceRefName |-> pr.sourceRefName,
                 repositoryId |-> repositoryId], log3)

InitPullRequest ==
    /\ blockedWorkItemTypes = {}
    /\ initialized = FALSE
    /\ pc = "pullRequest"
    /\ config \in {MkRepoConfig(p, MaxFileSize) : p \in {Proj, ProjX}}
    /\ backend \in PrBackends
    /\ call = NoCall
    /\ gateCall = NoGateCall
    /\ prevGateCall = NoGateCall

GetPullRequest ==
    \E repositoryId \in PrRepositoryIds, pullRequestId \in 1..MaxPullRequestId :
        /\ pc = "pullRequest"
        /\ call.op = "none"
        /\ call' = MkRepoCall("getPullRequest", repositoryId, <<>>, <<>>, pullRequestId,
                              getPullRequest(backend, config, repositoryId, pullRequestId))
        /\ UNCHANGED <<blockedWorkItemTypes, initialized, pc, config, backend, gateCall, prevGateCall>>

NextPullRequest ==
    \/ GetPullRequest
    \/ Deliver

SpecPullRequest == InitPullRequest /\ [][NextPullRequest]_vars

(***************************************************************************)
(* getMyWorkItems against query results of more than one batch.            *)
(***************************************************************************)
MaxBatches == 2   \* query results fill up to MaxBatches batches and one id more

\* a query result of n ids in which the records the server holds stand at the head of
\* each batch; the other ids are gone by the time they are fetched
SpreadIds(n) ==
    [k \in 1..n |-> IF k % BatchSize = 1 /\ (k \div BatchSize) + 1 <= MaxId
                    THEN (k \div BatchSize) + 1 ELSE MaxId + k]

WiqlResults ==
    {[k \in 1..n |-> k] : n \in 0..MaxId}
    \cup {SpreadIds(n) : n \in {BatchSize, BatchSize + 1, MaxBatches * BatchSize + 1}}

MyKindAssignments ==
    {k \in KindAssignments : \A i \in Ids : k[i] \in {"Task", "Bug", "noType", "throws"}}

MyBackends ==
    {[MkBackend(k, "star", "ok") EXCEPT !.wiql.ids = ids] :
        k \in MyKindAssignments, ids \in WiqlResults}
    \cup {[MkBackend(AllTasks, "star", "ok") EXCEPT !.wiql.resp = "throws"]}

MaxResultsArguments ==
    (0..MaxId) \cup {BatchSize, BatchSize + 1, MaxBatches * BatchSize + 1}

InitMyWorkItems ==
    /\ blockedWorkItemTypes = LowerCasedSet(<<TBugUpper>>)
    /\ initialized = TRUE
    /\ pc = "myWorkItems"
    /\ config = MkConfig(<<TBugUpper>>)
    /\ backend \in MyBackends
    /\ call = NoCall
    /\ gateCall = NoGateCall
    /\ prevGateCall = NoGateCall

\* the argument of getMyWorkItems is kept in the id field of the call
GetMyWorkItemsInBatches ==
    \E maxResults \in MaxResultsArguments :
        /\ pc = "myWorkItems"
        /\ call.op = "none"
        /\ call' = MkCall("getMyWorkItems", maxResults, 0, getMyWorkItems(backend, maxResults))
        /\ UNCHANGED <<blockedWorkItemTypes, initialized, pc, config, backend, gateCall, prevGateCall>>

NextMyWorkItems ==
    \/ GetMyWorkItemsInBatches
    \/ Deliver

SpecMyWorkItems == InitMyWorkItems /\ [][NextMyWorkItems]_vars

(***************************************************************************)
(* The hierarchy walker step by step: every await of getChildWorkItems,    *)
(* getWorkItemTree and buildWorkItemTree is a request that is issued and a *)
(* response that arrives later; the call stack is the stack of frames.     *)
(***************************************************************************)
\* the roots the walks start from
WalkRoots == {1, 2}

WalkKindAssignments ==
    {k \in KindAssignments : \A i \in Ids : k[i] \in {"Task", "Bug", "throws"}}

WalkBackends ==
    {MkBackend(k, t, "ok") : k \in WalkKindAssignments, t \in Topologies \cup {"twoCycle"}}

\* one activation of getChildWorkItems / buildWorkItemTree (or of getWorkItemTree,
\* phases root and awaitRoot) and the statement it is at
Frame(parentId, depth, phase, relations) ==
    [parentId |-> parentId, depth |-> depth, phase |-> phase, relations |-> relations]

AwaitPhases == {"awaitRoot", "awaitParent", "awaitChild"}

MkWalk(mode, id, maxDepth, stack, inFlight, log, val, err) ==
    [op |-> "walk", mode |-> mode, id |-> id, maxDepth |-> maxDepth, stack |-> stack,
     inFlight |-> inFlight, log |-> log, val |-> val, err |-> err]

InitWalk ==
    /\ blockedWorkItemTypes = LowerCasedSet(<<TBugUpper>>)
    /\ initialized = TRUE
    /\ pc = "walk"
    /\ config = MkConfig(<<TBugUpper>>)
    /\ backend \in WalkBackends
    /\ call = NoCall
    /\ gateCall = NoGateCall
    /\ prevGateCall = NoGateCall

Walking == pc = "walk" /\ call.op = "walk" /\ call.stack # <<>>

Top == Head(call.stack)

WalkStep(c) ==
    /\ call' = c
    /\ UNCHANGED <<blockedWorkItemTypes, initialized, pc, config, backend, gateCall, prevGateCall>>

\* getChildWorkItems(id, maxDepth) or getWorkItemTree(id, maxDepth) is called
WalkStart ==
    \E mode \in {"flat", "tree"}, id \in WalkRoots, maxDepth \in 0..MaxDepthBound :
        /\ pc = "walk"
        /\ call.op = "none"
        /\ WalkStep(MkWalk(mode, id, maxDepth,
                           <<Frame(id, 0, IF mode = "tree" THEN "root" ELSE "enter", <<>>)>>,
                           0, <<>>, <<>>, NoError))

\* getWorkItemTree: this.getWorkItem(rootId) is issued
WalkFetchRoot ==
    /\ Walking
    /\ Top.phase = "root"
    /\ WalkStep([call EXCEPT !.stack = <<[Top EXCEPT !.phase = "awaitRoot"]>>,
                             !.inFlight = @ + 1,
                             !.log = Append(@, Ev("api.getWorkItem", Top.parentId))])

\* getWorkItemTree: the root came back; a failure ends the call
WalkRootFetched ==
    /\ Walking
    /\ Top.phase = "awaitRoot"
    /\ LET rootWorkItem == getWorkItem(backend, Top.parentId)
       IN  WalkStep([call EXCEPT !.stack = IF rootWorkItem.ok
                                           THEN <<[Top EXCEPT !.phase = "enter"]>> ELSE <<>>,
                                 !.inFlight = @ - 1,
                                 !.log = @ \o Tail(rootWorkItem.log),
                                 !.err = rootWorkItem.err])

\* the depth guard, then api.getWorkItem(parentId) is issued
WalkEnter ==
    /\ Walking
    /\ Top.phase = "enter"
    /\ IF DepthReached(Top.depth, call.maxDepth)
       THEN WalkStep([call EXCEPT !.stack = Tail(@)])
       ELSE WalkStep([call EXCEPT !.stack = <<[Top EXCEPT !.phase = "awaitParent"]>> \o Tail(@),
                                  !.inFlight = @ + 1,
                                  !.log = Append(@, Ev("api.getWorkItem", Top.parentId))])

\* the parent came back: return [] or enter the loop over its child relations
WalkParentFetched ==
    /\ Walking
    /\ Top.phase = "awaitParent"
    /\ LET parent == ApiGetWorkItem(backend, Top.parentId)
           childRelations == ChildRelationsOf(parent.item.relations)
       IN  WalkStep([call EXCEPT
               !.stack = IF parent.resp # "item" \/ ~parent.item.hasRelations
                            \/ Len(childRelations) = 0
                         THEN Tail(@)
                         ELSE <<[Top EXCEPT !.phase = "loop", !.relations = childRelations]>>
                              \o Tail(@),
               !.inFlight = @ - 1])

\* variant of WalkNextRelation: the fetches of all remaining siblings are issued together
WalkNextRelation_allAtOnce ==
    /\ Walking
    /\ Top.phase = "loop"
    /\ Len(Top.relations) > 0
    /\ WalkStep([call EXCEPT !.stack = <<[Top EXCEPT !.phase = "awaitChild"]>> \o Tail(@),
                             !.inFlight = @ + Len(Top.relations)])

\* the loop takes its next relation: skip it, or issue this.getWorkItem(childId)
WalkNextRelation ==
    /\ Walking
    /\ Top.phase = "loop"
    /\ Len(Top.relations) > 0
    /\ LET relation == Head(Top.relations)
       IN  IF relation.url = NoUrl \/ Len(TrailingDigits(relation.url)) = 0
           THEN WalkStep([call EXCEPT !.stack = <<[Top EXCEPT !.relations = Tail(@)]>> \o Tail(@)])
           ELSE WalkStep([call EXCEPT
                    !.stack = <<[Top EXCEPT !.phase = "awaitChild"]>> \o Tail(@),
                    !.inFlight = @ + 1,
                    !.log = Append(@, Ev("api.getWorkItem",
                                         ParseInt(TrailingDigits(relation.url))))])

\* variant of WalkChildFetched: the walk descends below a child whatever its fetch gave
WalkChildFetched_descendsAnyway ==
    /\ Walking
    /\ Top.phase = "awaitChild"
    /\ \E childId \in {ParseInt(TrailingDigits(Head(Top.relations).url))} :
       \E childWorkItem \in {getWorkItem(backend, childId)} :
       \E caller \in {[Top EXCEPT !.phase = "loop", !.relations = Tail(@)]} :
           WalkStep([call EXCEPT
               !.stack = <<Frame(childId, Top.depth + 1, "enter", <<>>), caller>> \o Tail(@),
               !.inFlight = @ - 1,
               !.log = @ \o Tail(childWorkItem.log),
               !.val = IF childWorkItem.ok
                       THEN Append(@, [workItem |-> childWorkItem.val,
                                       depth |-> ChildNodeDepth(Top.depth)])
                       ELSE @])

\* the child came back: it is emitted and the walk descends below it, or it failed
\* and the loop goes on
WalkChildFetched ==
    /\ Walking
    /\ Top.phase = "awaitChild"
    /\ \E childId \in {ParseInt(TrailingDigits(Head(Top.relations).url))} :
       \E childWorkItem \in {getWorkItem(backend, childId)} :
       \E caller \in {[Top EXCEPT !.phase = "loop", !.relations = Tail(@)]} :
           WalkStep([call EXCEPT
               !.stack = IF childWorkItem.ok
                         THEN <<Frame(childId, Top.depth + 1, "enter", <<>>), caller>> \o Tail(@)
                         ELSE <<caller>> \o Tail(@),
               !.inFlight = @ - 1,
               !.log = @ \o Tail(childWorkItem.log),
               !.val = IF childWorkItem.ok
                       THEN Append(@, [workItem |-> childWorkItem.val,
                                       depth |-> ChildNodeDepth(Top.depth)])
                       ELSE @])

\* the loop is through: return allChildren / childTrees to the caller
WalkReturn ==
    /\ Walking
    /\ Top.phase = "loop"
    /\ Len(Top.relations) = 0
    /\ WalkStep([call EXCEPT !.stack = Tail(@)])

NextWalk ==
    \/ WalkStart
    \/ WalkFetchRoot
    \/ WalkRootFetched
    \/ WalkEnter
    \/ WalkParentFetched
    \/ WalkNextRelation
    \/ WalkChildFetched
    \/ WalkReturn

\* every backend call returns or fails, and the event loop runs what is ready
SpecWalk == InitWalk /\ [][NextWalk]_vars /\ WF_vars(NextWalk)

(***************************************************************************)
(* getAllCommits step by step: the two scans of Promise.all run as two     *)
(* tasks that interleave at their awaits and share the static client cache *)
(* of AzureDevOpsClient and the clock behind new Date().                   *)
(***************************************************************************)
MaxCommitCalls == 2   \* getAllCommits calls served by one process

ScanNames == {"direct", "pr"}

\* variant of the healthy git side in which commit a and the commit of pull request 2
\* carry no author date
Undated(b) ==
    [b EXCEPT !.git.commits[Hash("a")].commit.date = 0,
              !.git.prs[2].commits = <<MkCommit(Hash("d"), 0, "pr")>>]

CommitBackends ==
    {MkBackend(k, "star", g) : k \in RootKindAssignments, g \in GitVariants}
    \cup {Undated(MkBackend(AllTasks, "star", "ok"))}

\* AzureDevOpsClient's static gitApi (0: not set; otherwise the instance) and the number
\* of connection.getGitApi() invocations so far
MkClient(gitApi, created) == [gitApi |-> gitApi, created |-> created]

\* one scan (getLinkedCommits or getPullRequestCommits) and the statement it is at
MkScan(at, gitApi, relations, val) ==
    [at |-> at, gitApi |-> gitApi, relations |-> relations, val |-> val]

\* last: the call served before (id 0: none) and what it returned
MkCommitsIdle(client, served, last) ==
    [op |-> "idle", id |-> 0, client |-> client, served |-> served, last |-> last, clock |-> 0,
     fetches |-> 0, scans |-> [s \in ScanNames |-> MkScan("done", 0, <<>>, <<>>)],
     joined |-> FALSE, res |-> <<>>]

InitCommits ==
    /\ blockedWorkItemTypes = LowerCasedSet(<<TBugUpper>>)
    /\ initialized = TRUE
    /\ pc = "commits"
    /\ config = MkConfig(<<TBugUpper>>)
    /\ backend \in CommitBackends
    /\ call = MkCommitsIdle(MkClient(0, 0), 0, [id |-> 0, res |-> <<>>])
    /\ gateCall = NoGateCall
    /\ prevGateCall = NoGateCall

\* a step of the call: time passes
CommitsStep(c) ==
    /\ call' = [c EXCEPT !.clock = call.clock + 1]
    /\ UNCHANGED <<blockedWorkItemTypes, initialized, pc, config, backend, gateCall, prevGateCall>>

ScanAt(s, at) == pc = "commits" /\ call.op = "getAllCommits" /\ call.scans[s].at = at

\* what new Date() gives at this step: later than every commit date
Now == backend.git.now + call.clock

\* getAllCommits(workItemId): Promise.all starts both scans
CommitsStart ==
    \E id \in {1, 2} :
        /\ pc = "commits"
        /\ call.op = "idle"
        /\ call.served < MaxCommitCalls
        /\ CommitsStep([call EXCEPT !.op = "getAllCommits", !.id = id,
                                    !.scans = [s \in ScanNames |-> MkScan("witApi", 0, <<>>, <<>>)]])

\* await AzureDevOpsClient.getWorkItemTrackingApi(): cached since validateConnection
ScanGetWitApi(s) ==
    /\ ScanAt(s, "witApi")
    /\ CommitsStep([call EXCEPT !.scans[s].at = "gitApi"])

\* getGitApi up to its await: the cached client, or connection.getGitApi() is invoked
ScanGetGitApi(s) ==
    /\ ScanAt(s, "gitApi")
    /\ IF call.client.gitApi # 0
       THEN CommitsStep([call EXCEPT !.scans[s].at = "fetch",
                                     !.scans[s].gitApi = call.client.gitApi])
       ELSE CommitsStep([call EXCEPT !.scans[s].at = "awaitGitApi",
                                     !.scans[s].gitApi = call.client.created + 1,
                                     !.client.created = @ + 1])

\* getGitApi after its await: this.gitApi = <the new instance>; return this.gitApi
ScanGitApiCreated(s) ==
    /\ ScanAt(s, "awaitGitApi")
    /\ CommitsStep([call EXCEPT !.scans[s].at = "fetch",
                                !.client.gitApi = call.scans[s].gitApi])

ScanUrn(s) == IF s = "direct" THEN CommitUrn ELSE PullRequestUrn

\* api.getWorkItem(workItemId, ..., Relations) and the filter over its relations
ScanFetchWorkItem(s) ==
    /\ ScanAt(s, "fetch")
    /\ LET workItem == ApiGetWorkItem(backend, call.id)
       IN  IF workItem.resp # "item" \/ ~workItem.item.hasRelations
           THEN CommitsStep([call EXCEPT !.scans[s].at = "done", !.fetches = @ + 1])
           ELSE CommitsStep([call EXCEPT
                    !.scans[s].at = "loop",
                    !.fetches = @ + 1,
                    !.scans[s].relations =
                        SelectSeq(workItem.item.relations,
                                  LAMBDA rel : rel.rel = ArtifactLink
                                               /\ Includes(rel.url, ScanUrn(s)))])

\* one turn of the scan's for loop: the relation's commits, dated now where undated
ScanNextRelation(s) ==
    /\ ScanAt(s, "loop")
    /\ Len(call.scans[s].relations) > 0
    /\ LET b == [backend EXCEPT !.git.now = Now]
           relation == <<Head(call.scans[s].relations)>>
           found == IF s = "direct" THEN LinkedCommitLoop(b, relation)
                    ELSE PullRequestLoop(b, relation)
       IN  CommitsStep([call EXCEPT !.scans[s].relations = Tail(@),
                                    !.scans[s].val = @ \o found.val])

\* return commits
ScanReturn(s) ==
    /\ ScanAt(s, "loop")
    /\ Len(call.scans[s].relations) = 0
    /\ CommitsStep([call EXCEPT !.scans[s].at = "done"])

\* variant of BothSettled: the first scan to finish settles the call
BothSettled_firstSettled(scans) == \E s \in ScanNames : scans[s].at = "done"

\* Promise.all([...]) resolves when both scans have
BothSettled(scans) == \A s \in ScanNames : scans[s].at = "done"

\* the continuation of getAllCommits: concatenate, deduplicate, sort
CommitsJoin ==
    /\ pc = "commits"
    /\ call.op = "getAllCommits"
    /\ ~call.joined
    /\ BothSettled(call.scans)
    /\ CommitsStep([call EXCEPT
           !.joined = TRUE,
           !.res = SortByDateDesc(deduplicateCommits(call.scans["direct"].val
                                                     \o call.scans["pr"].val))])

\* the result is returned; the client cache stays for the next call
CommitsDeliver ==
    /\ pc = "commits"
    /\ call.op = "getAllCommits"
    /\ call.joined
    /\ call' = MkCommitsIdle(call.client, call.served + 1, [id |-> call.id, res |-> call.res])
    /\ UNCHANGED <<blockedWorkItemTypes, initialized, pc, config, backend, gateCall, prevGateCall>>

NextCommits ==
    \/ CommitsStart
    \/ \E s \in ScanNames : ScanGetWitApi(s)
    \/ \E s \in ScanNames : ScanGetGitApi(s)
    \/ \E s \in ScanNames : ScanGitApiCreated(s)
    \/ \E s \in ScanNames : ScanFetchWorkItem(s)
    \/ \E s \in ScanNames : ScanNextRelation(s)
    \/ \E s \in ScanNames : ScanReturn(s)
    \/ CommitsJoin
    \/ CommitsDeliver

SpecCommits == InitCommits /\ [][NextCommits]_vars

(***************************************************************************)
(* Vocabulary of the properties.                                           *)
(***************************************************************************)
\* two characters that are equal up to letter case
SameCharIgnoringCase(c, d) ==
    \/ c = d
    \/ \E k \in 1..Len(UpperLetters) : {c, d} = {UpperLetters[k], LowerLetters[k]}

SameIgnoringCase(str1, str2) ==
    /\ Len(str1) = Len(str2)
    /\ \A i \in 1..Len(str1) : SameCharIgnoringCase(str1[i], str2[i])

\* the type matches an entry of the configured list, whatever the letter case
TypeConfiguredBlocked(type) ==
    \E i \in 1..Len(config.gdprBlockedWorkItemTypes) :
        SameIgnoringCase(config.gdprBlockedWorkItemTypes[i], type)

WellFormed(workItem) == workItem.id # 0 /\ workItem.hasFields /\ workItem.fields.type # NoType

Range(seq) == {seq[i] : i \in 1..Len(seq)}

\* C1: on a well-formed record an initialized validator throws GDPRComplianceError with
\* the record's id and type exactly when the type matches a configured entry up to letter
\* case, returns normally otherwise, and decides a repeated record the same way.
C1_ValidateDecision ==
    (gateCall.op = "validate" /\ gateCall.wasInitialized /\ WellFormed(gateCall.workItem)) =>
        /\ IF TypeConfiguredBlocked(gateCall.workItem.fields.type)
           THEN /\ ~gateCall.res.ok
                /\ gateCall.res.err.name = "GDPRComplianceError"
                /\ gateCall.res.err.id = gateCall.workItem.id
                /\ gateCall.res.err.type = gateCall.workItem.fields.type
           ELSE gateCall.res.ok
        /\ (prevGateCall.op = "validate" /\ prevGateCall.wasInitialized
              /\ prevGateCall.workItem = gateCall.workItem)
           => (prevGateCall.res.ok = gateCall.res.ok /\ prevGateCall.res.err = gateCall.res.err)

\* a Bug is blocked by the entry "BUG", twice in a row
C1_Witness ==
    /\ gateCall.op = "validate" /\ gateCall.wasInitialized
    /\ prevGateCall.op = "validate" /\ prevGateCall.wasInitialized
    /\ prevGateCall.workItem = gateCall.workItem
    /\ gateCall.workItem.id = 1
    /\ gateCall.workItem.fields.type = TBug
    /\ config.gdprBlockedWorkItemTypes = <<TBugUpper, TIssue>>
    /\ gateCall.res.err.name = "GDPRComplianceError"

\* the subtrees of a tree, the tree itself included
RECURSIVE TreeNodes(_)
TreeNodes(tree) == {tree} \cup UNION {TreeNodes(c) : c \in Range(tree.children)}

\* the records a hierarchy call hands to its caller
OutputRecords(c) ==
    CASE c.op = "getWorkItem" /\ c.res.ok -> {c.res.val}
      [] c.op = "getChildWorkItems" -> Range(c.res.val)
      [] c.op = "getWorkItemTree" /\ c.res.ok -> {n.workItem : n \in TreeNodes(c.res.val)}
      [] OTHER -> {}

ValidateEvents == {"validate.allowed", "validate.blocked", "validate.failed"}

\* C2: every record in the output of getWorkItem, getChildWorkItems and getWorkItemTree
\* was validated and allowed during the call, and its type is not in the block-set.
C2_OutputsGated ==
    \A r \in OutputRecords(call) :
        /\ ~TypeConfiguredBlocked(r.workItemType)
        /\ Ev("validate.allowed", r.id) \in Range(call.res.log)

\* a tree of at least two records was returned although a blocked record was met
C2_Witness ==
    /\ call.op = "getWorkItemTree" /\ call.res.ok
    /\ Cardinality(OutputRecords(call)) >= 2
    /\ \E e \in Range(call.res.log) : e.ev = "validate.blocked"

\* the backend with the content fields of every blocked record replaced
Scrub(b) ==
    [b EXCEPT !.items =
        [i \in DOMAIN b.items |->
            IF /\ b.items[i].resp = "item"
               /\ WellFormed(b.items[i].item)
               /\ TypeConfiguredBlocked(b.items[i].item.fields.type)
            THEN [b.items[i] EXCEPT !.item.fields.title = <<"other title", 0>>,
                                    !.item.fields.state = "Closed",
                                    !.item.fields.assignedTo = <<"other user", 0>>]
            ELSE b.items[i]]]

\* what the call would have answered on backend b
Recompute(c, b) ==
    CASE c.op = "getWorkItem" -> getWorkItem(b, c.id)
      [] c.op = "getChildWorkItems" -> getChildWorkItems(b, c.id, c.maxDepth, 0)
      [] c.op = "getWorkItemTree" -> getWorkItemTree(b, c.id, c.maxDepth)
      [] OTHER -> getMyWorkItems(b, c.id)

\* C3: getWorkItem, getChildWorkItems, getWorkItemTree and getMyWorkItems answer the same,
\* result and error alike, on two backends that differ only in content fields of blocked records.
C3_BlockedContentUnobservable ==
    call.op \in {"getWorkItem", "getChildWorkItems", "getWorkItemTree", "getMyWorkItems"} =>
        LET other == Recompute(call, Scrub(backend))
        IN  /\ other.ok = call.res.ok
            /\ other.err = call.res.err
            /\ other.ok => other.val = call.res.val

\* C4: getChildWorkItems always fetches the root and passes it through the gate, whatever
\* maxDepth is, and follows no child relation of the root unless the root passed.
C4_RootAlwaysGated ==
    call.op = "getChildWorkItems" =>
        /\ Len(call.res.log) >= 1
        /\ call.res.log[1] = Ev("api.getWorkItem", call.id)
        /\ ApiGetWorkItem(backend, call.id).resp = "item" =>
              (Len(call.res.log) >= 2 /\ call.res.log[2].ev \in ValidateEvents)
        /\ Len(call.res.log) > 2 => call.res.log[2].ev = "validate.allowed"

RootIsBlocked(b, id) ==
    /\ ApiGetWorkItem(b, id).resp = "item"
    /\ WellFormed(ApiGetWorkItem(b, id).item)
    /\ TypeConfiguredBlocked(ApiGetWorkItem(b, id).item.fields.type)

\* C5: for a work item whose type is in the block-set, getAllCommits, getLinkedCommits and
\* getPullRequestCommits issue no commit or pull-request fetch and return no commit.
C5_GateBeforeCommits ==
    (call.op \in {"getAllCommits", "getLinkedCommits", "getPullRequestCommits"}
       /\ RootIsBlocked(backend, call.id)) =>
        /\ \A e \in Range(call.res.log) :
              e.ev \notin {"gitApi.getCommit", "gitApi.getPullRequestCommits"}
        /\ call.res.val = <<>>

IsMalformed(b, id) ==
    ApiGetWorkItem(b, id).resp = "item" /\ ~WellFormed(ApiGetWorkItem(b, id).item)

ChildIdsOf(b, p) ==
    LET e == ApiGetWorkItem(b, p)
    IN  IF e.resp # "item" \/ ~e.item.hasRelations THEN {}
        ELSE {ParseInt(TrailingDigits(r.url)) :
                r \in {q \in Range(e.item.relations) :
                         q.rel = HierarchyForward /\ TrailingDigits(q.url) # <<>>}}

\* the record can be fetched and passes the gate
Passes(b, id) ==
    /\ ApiGetWorkItem(b, id).resp = "item"
    /\ WellFormed(ApiGetWorkItem(b, id).item)
    /\ ~TypeConfiguredBlocked(ApiGetWorkItem(b, id).item.fields.type)

\* path leads from root along child relations through records that all pass
GoodPath(b, root, path) ==
    \A i \in 1..Len(path) :
        /\ path[i] \in ChildIdsOf(b, IF i = 1 THEN root ELSE path[i - 1])
        /\ Passes(b, path[i])

PathsUpTo(n) == UNION {[1..len -> Ids] : len \in 1..n}

\* the tree list holds a node for every step of the path, at the depth of the step
RECURSIVE HasPath(_, _, _)
HasPath(children, path, depth) ==
    \E k \in 1..Len(children) :
        /\ children[k].workItem.id = path[1]
        /\ children[k].depth = depth
        /\ Len(path) = 1 \/ HasPath(children[k].children, Tail(path), depth + 1)

\* C7: a child that cannot be fetched or does not pass the gate costs its own subtree only:
\* every record reached from the root within maxDepth steps through records that all pass
\* is in the result of getChildWorkItems and of getWorkItemTree, whatever its siblings did.
C7_FailureIsolation ==
    /\ call.op = "getChildWorkItems" =>
          \A path \in PathsUpTo(call.maxDepth) :
              GoodPath(backend, call.id, path) =>
                  transformWorkItem(ApiGetWorkItem(backend, path[Len(path)]).item)
                      \in Range(call.res.val)
    /\ (call.op = "getWorkItemTree" /\ call.res.ok) =>
          \A path \in PathsUpTo(call.maxDepth) :
              GoodPath(backend, call.id, path) => HasPath(call.res.val.children, path, 1)

\* the first child of the root failed and a later child came back with a child of its own
C7_Witness ==
    /\ call.op = "getChildWorkItems"
    /\ Len(call.res.log) > 2
    /\ call.res.log[2].ev = "api.getWorkItem"
    /\ call.res.log[3].ev # "validate.allowed"
    /\ \E path \in PathsUpTo(call.maxDepth) :
          /\ Len(path) = 2
          /\ path[1] # call.res.log[2].id
          /\ GoodPath(backend, call.id, path)

\* the error of the root record's own fetch or gate check, NoError when both succeed
RootFailure(b, id) ==
    LET e == ApiGetWorkItem(b, id)
    IN  IF e.resp = "throws" THEN BackendFailure
        ELSE IF e.resp = "null" THEN NotFoundError("Work item", id)
        ELSE validate(e.item).err

\* C8: at getWorkItem, getChildWorkItems, getWorkItemTree and getAllCommits a failure of the
\* root record's fetch or gate check reaches the caller unmodified, and no other failure does.
C8_RootFailurePropagates ==
    call.op \in {"getWorkItem", "getChildWorkItems", "getWorkItemTree", "getAllCommits"} =>
        IF RootFailure(backend, call.id) # NoError
        THEN ~call.res.ok /\ call.res.err = RootFailure(backend, call.id)
        ELSE call.res.ok

\* every node carries the depth it is found at, and none lies below maxDepth
RECURSIVE TreeDepthsFrom(_, _, _)
TreeDepthsFrom(tree, depth, maxDepth) ==
    /\ tree.depth = depth
    /\ depth <= maxDepth
    /\ \A k \in 1..Len(tree.children) : TreeDepthsFrom(tree.children[k], depth + 1, maxDepth)

\* C9: in the tree of getWorkItemTree(rootId, maxDepth) every node's depth is the number of
\* child edges between the root and the node and no depth exceeds maxDepth; on a chain
\* 1 -> 2 -> 3 -> 4 with maxDepth 2 the tree holds 3 at depth 2 and does not hold 4.
C9_TreeDepth ==
    (call.op = "getWorkItemTree" /\ call.res.ok) =>
        /\ TreeDepthsFrom(call.res.val, 0, call.maxDepth)
        /\ (backend = MkBackend(AllTasks, "chain", "ok") /\ call.id = 1 /\ call.maxDepth = 2
              /\ ~TypeConfiguredBlocked(TTask)) =>
              /\ \E n \in TreeNodes(call.res.val) : n.workItem.id = 3 /\ n.depth = 2
              /\ \A n \in TreeNodes(call.res.val) : n.workItem.id \in {1, 2, 3}
              /\ Cardinality(TreeNodes(call.res.val)) = 3

\* the tree of the chain was built with maxDepth 2
C9_Witness ==
    /\ call.op = "getWorkItemTree" /\ call.res.ok
    /\ backend = MkBackend(AllTasks, "chain", "ok") /\ call.id = 1 /\ call.maxDepth = 2
    /\ \E n \in TreeNodes(call.res.val) : n.depth = 2

\* C10: getChildWorkItems(id, 0) returns the empty sequence for every id and backend.
C10_DepthZeroEmpty ==
    (call.op = "getChildWorkItems" /\ call.maxDepth = 0) => (call.res.ok /\ call.res.val = <<>>)

\* depth 0 was asked for a root whose children all pass
C10_Witness ==
    /\ call.op = "getChildWorkItems" /\ call.maxDepth = 0
    /\ \E c \in Ids : GoodPath(backend, call.id, <<c>>)

(***************************************************************************)
(* Order of the flat walk.                                                 *)
(***************************************************************************)
\* the ids the hierarchy-child relations of work item p point to, in relation order
ChildIdSeq(b, p) ==
    LET e == ApiGetWorkItem(b, p)
    IN  IF e.resp # "item" \/ ~e.item.hasRelations THEN <<>>
        ELSE LET rels == SelectSeq(e.item.relations,
                                   LAMBDA q : q.rel = HierarchyForward /\ TrailingDigits(q.url) # <<>>)
             IN  [k \in 1..Len(rels) |-> ParseInt(TrailingDigits(rels[k].url))]

\* pre-order of the passing records below p, depth levels deep: each child in relation
\* order, directly followed by its own pre-order
RECURSIVE PreOrderBelow(_, _, _)
RECURSIVE PreOrderOfChildren(_, _, _)
PreOrderOfChildren(b, children, depth) ==
    IF Len(children) = 0 THEN <<>>
    ELSE (IF Passes(b, Head(children))
          THEN <<Head(children)>> \o PreOrderBelow(b, Head(children), depth - 1)
          ELSE <<>>)
         \o PreOrderOfChildren(b, Tail(children), depth)

PreOrderBelow(b, p, depth) ==
    IF depth = 0 THEN <<>> ELSE PreOrderOfChildren(b, ChildIdSeq(b, p), depth)

IdsOf(records) == [k \in 1..Len(records) |-> records[k].id]

\* C11: the sequence getChildWorkItems returns is the pre-order of the hierarchy in the
\* backend's relation order: the children of a parent in the order of its child relations,
\* each directly followed by all its emitted descendants, with no other sorting.
C11_PreOrder ==
    call.op = "getChildWorkItems" =>
        IdsOf(call.res.val) = PreOrderBelow(backend, call.id, call.maxDepth)

\* a child with a descendant came back before its later sibling, and the result is
\* not in ascending order of ids
C11_Witness ==
    /\ call.op = "getChildWorkItems"
    /\ Len(call.res.val) >= 3
    /\ call.res.val[2].id \in ChildIdsOf(backend, call.res.val[1].id)
    /\ call.res.val[3].id \in ChildIdsOf(backend, call.id)
    /\ call.res.val[3].id < call.res.val[2].id

(***************************************************************************)
(* The commit aggregator.                                                  *)
(***************************************************************************)
\* C12: getAllCommits never returns two records with the same commitId, and of any two
\* returned records the earlier one is not older than the later one, whatever the
\* relations are and however the single fetches ended.
C12_UniqueNewestFirst ==
    call.op = "getAllCommits" =>
        \A i, j \in 1..Len(call.res.val) :
            i < j => /\ call.res.val[i].commitId # call.res.val[j].commitId
                     /\ call.res.val[i].date >= call.res.val[j].date

\* the concatenation held a commit twice and its newest record last
C12_Witness ==
    /\ call.op = "getAllCommits"
    /\ LET allCommits == getLinkedCommits(backend, call.id).val
                            \o getPullRequestCommits(backend, call.id).val
       IN  /\ Len(allCommits) > Len(call.res.val)
           /\ Len(call.res.val) >= 3
           /\ allCommits[Len(allCommits)] = call.res.val[1]

\* C13: of the records with one commitId getAllCommits keeps the first of the
\* concatenation direct links ++ pull-request links: a commit reached through a direct
\* link and through a pull request is returned as the direct link built it.
C13_DirectLinkWins ==
    call.op = "getAllCommits" =>
        LET direct == getLinkedCommits(backend, call.id).val
        IN  \A r \in Range(call.res.val) :
                (\E k \in 1..Len(direct) : direct[k].commitId = r.commitId) =>
                    \E k \in 1..Len(direct) :
                        /\ direct[k] = r
                        /\ \A h \in 1..(k - 1) : direct[h].commitId # r.commitId

\* a returned commit was also found, with another record, through a pull request
C13_Witness ==
    /\ call.op = "getAllCommits"
    /\ \E r \in Range(call.res.val) :
          /\ r \in Range(getLinkedCommits(backend, call.id).val)
          /\ \E q \in Range(getPullRequestCommits(backend, call.id).val) :
                q.commitId = r.commitId /\ q # r

\* the commit and pull-request links of work item id whose URL the loops accept
CommitLinksOf(b, id) ==
    LET e == ApiGetWorkItem(b, id)
    IN  IF e.resp # "item" \/ ~e.item.hasRelations THEN {}
        ELSE {MatchCommitUrl(q.url) :
                q \in {x \in Range(e.item.relations) :
                         /\ x.rel = ArtifactLink /\ Includes(x.url, CommitUrn)
                         /\ MatchCommitUrl(x.url).matched}}

PullRequestLinksOf(b, id) ==
    LET e == ApiGetWorkItem(b, id)
    IN  IF e.resp # "item" \/ ~e.item.hasRelations THEN {}
        ELSE {MatchPrUrl(q.url) :
                q \in {x \in Range(e.item.relations) :
                         /\ x.rel = ArtifactLink /\ Includes(x.url, PullRequestUrn)
                         /\ MatchPrUrl(x.url).matched}}

CommitIdsOf(records) == {r.commitId : r \in Range(records)}

\* C14: a direct commit or a pull request whose fetch fails costs its own commits only:
\* the aggregation completes and holds the commits of every relation whose fetch succeeded.
C14_RelationFailureIsolated ==
    /\ call.op \in {"getLinkedCommits", "getPullRequestCommits", "getAllCommits"} => call.res.ok
    /\ call.op \in {"getLinkedCommits", "getAllCommits"} =>
          \A m \in CommitLinksOf(backend, call.id) :
              LET got == GitGetCommit(backend, m.commitId, m.repositoryId)
              IN  got.resp = "item" =>
                      CommitDetails(backend, got.commit, m.commitId, m.repositoryId).commitId
                          \in CommitIdsOf(call.res.val)
    /\ call.op \in {"getPullRequestCommits", "getAllCommits"} =>
          \A m \in PullRequestLinksOf(backend, call.id) :
              LET got == GitGetPullRequestCommits(backend, m.repositoryId, m.pullRequestId)
              IN  got.resp = "list" =>
                      \A k \in 1..Len(got.commits) :
                          got.commits[k].commitId \in CommitIdsOf(call.res.val)

\* the fetch of the first relation was rejected and a later relation's commit is returned
C14_Witness ==
    /\ call.op \in {"getLinkedCommits", "getPullRequestCommits"}
    /\ Len(call.res.log) >= 3
    /\ Len(call.res.val) >= 1
    /\ \/ /\ call.op = "getLinkedCommits"
          /\ GitGetCommit(backend, Hash("a"), RepoName).resp = "throws"
       \/ /\ call.op = "getPullRequestCommits"
          /\ GitGetPullRequestCommits(backend, RepoName, 1).resp = "throws"

(***************************************************************************)
(* File retrieval and repository references.                               *)
(***************************************************************************)
\* C15: when the metadata getFileContent fetched reports a size above maxFileSizeBytes the
\* call fails with FileSizeLimitError carrying the path, the reported size and the ceiling,
\* and the invocation issues no getItemText call.
C15_SizeCeilingBeforeContent ==
    call.op \in {"getFileContent", "getFileFromPullRequest"} =>
        \A k \in 1..Len(call.res.log) :
            LET e == call.res.log[k]
                item == GitGetItem(backend, e.repositoryId, e.path, e.version)
            IN  (e.ev = "gitApi.getItem" /\ item.resp = "item"
                   /\ item.size > config.maxFileSizeBytes) =>
                    /\ ~call.res.ok
                    /\ call.res.err.name = "FileSizeLimitError"
                    /\ call.res.err.filePath = call.filePath
                    /\ call.res.err.fileSize = item.size
                    /\ call.res.err.maxSize = config.maxFileSizeBytes
                    /\ \A h \in 1..Len(call.res.log) : call.res.log[h].ev # "gitApi.getItemText"

\* getFileContent found a file one byte above the ceiling
C15_Witness ==
    /\ call.op = "getFileContent"
    /\ ~call.res.ok
    /\ call.res.err.name = "FileSizeLimitError"
    /\ call.res.err.fileSize = config.maxFileSizeBytes + 1

\* the ref name without the namespace it starts with
WithoutPrefix(ref, prefix) ==
    IF Len(ref) >= Len(prefix) /\ SubSeq(ref, 1, Len(prefix)) = prefix
    THEN SubSeq(ref, Len(prefix) + 1, Len(ref)) ELSE ref

\* C16: getFileFromPullRequest fetches the pull request first and then answers what
\* getFileContent answers for the source branch without its refs/heads/ prefix; for a
\* pull request that is missing or has no source branch it fails with NotFoundError and
\* issues no metadata or content fetch.
C16_PullRequestSourceBranch ==
    call.op = "getFileFromPullRequest" =>
        /\ Len(call.res.log) >= 1
        /\ call.res.log[1].ev = "gitApi.getPullRequest"
        /\ call.res.log[1].version = NumToStr(call.pullRequestId)
        /\ LET pr == GitGetPullRequest(backend, call.res.log[1].repositoryId, call.pullRequestId)
           IN  /\ (pr.resp = "null" \/ (pr.resp = "item" /\ pr.sourceRefName = <<>>)) =>
                     /\ ~call.res.ok
                     /\ call.res.err.name = "NotFoundError"
                     /\ call.res.err.inner = "Pull request"
                     /\ call.res.err.id = call.pullRequestId
                     /\ Len(call.res.log) = 1
               /\ (pr.resp = "item" /\ pr.sourceRefName # <<>>) =>
                     LET branch == WithoutPrefix(pr.sourceRefName, RefsHeads)
                         file == getFileContent(backend, config, call.repositoryId,
                                                call.filePath, branch)
                     IN  /\ Tail(call.res.log) = file.log
                         /\ call.res.log[2].ev = "gitApi.getItem"
                         /\ call.res.log[2].version = branch
                         /\ call.res.ok = file.ok
                         /\ file.ok => call.res.val = file.val

\* the file came from the branch feature of a pull request whose source is refs/heads/feature
C16_Witness ==
    /\ call.op = "getFileFromPullRequest"
    /\ call.res.ok
    /\ call.res.val.branch = BranchFeature
    /\ backend.pr.sourceRefName = RefsHeads \o BranchFeature

HasSeparator(str) == \E i \in 1..Len(str) : str[i] = "/"

HexDigits ==
    {"0","1","2","3","4","5","6","7","8","9","a","b","c","d","e","f","A","B","C","D","E","F"}

\* 8-4-4-4-12 hex digits in either case, joined by "-"
MatchesGuidPattern(str) ==
    /\ Len(str) = 36
    /\ \A i \in 1..36 : IF i \in {9, 14, 19, 24} THEN str[i] = "-" ELSE str[i] \in HexDigits

\* C17: resolveRepositoryId returns an input that contains "/" unchanged, else an input
\* that matches the GUID pattern in either case unchanged, else project + "/" + input;
\* resolve("Foo", "Proj") = "Proj/Foo", resolve("Proj/Foo", "X") = "Proj/Foo", and the
\* GUID a1b2c3d4-e5f6-7890-abcd-ef1234567890 comes back unchanged.
C17_ResolveRules ==
    call.op = "resolveRepositoryId" =>
        LET input == call.repositoryId
            project == config.azureDevOpsProject
            out == call.res.val
        IN  /\ out = (IF HasSeparator(input) THEN input
                      ELSE IF MatchesGuidPattern(input) THEN input
                      ELSE project \o <<"/">> \o input)
            /\ (input = <<"F","o","o">> /\ project = <<"P","r","o","j">>) =>
                  out = <<"P","r","o","j","/","F","o","o">>
            /\ (input = <<"P","r","o","j","/","F","o","o">> /\ project = <<"X">>) =>
                  out = <<"P","r","o","j","/","F","o","o">>
            /\ input = GuidLower => out = GuidLower

\* a GUID written in upper case came back unchanged
C17_Witness ==
    /\ call.op = "resolveRepositoryId"
    /\ call.repositoryId = GuidUpper
    /\ call.res.val = GuidUpper

GuidOrScoped(ref) == MatchesGuidPattern(ref) \/ HasSeparator(ref)

\* C18: what resolveRepositoryId returns is a GUID or a path with a scope, never a bare
\* name, and so is every repository reference getFileContent and getFileFromPullRequest
\* hand to the backend.
C18_NeverBareName ==
    /\ call.op = "resolveRepositoryId" =>
          /\ GuidOrScoped(call.res.val)
          /\ ~GuidOrScoped(call.repositoryId) =>
                call.res.val = config.azureDevOpsProject \o <<"/">> \o call.repositoryId
    /\ call.op \in {"getFileContent", "getFileFromPullRequest"} =>
          \A k \in 1..Len(call.res.log) : GuidOrScoped(call.res.log[k].repositoryId)

\* a bare name was given and the pull request, the metadata and the content were fetched
C18_Witness ==
    /\ call.op = "getFileFromPullRequest"
    /\ call.repositoryId = Foo
    /\ Len(call.res.log) = 3
    /\ call.res.ok

(***************************************************************************)
(* Startup order and the validator's state.                                *)
(***************************************************************************)
UninitializedMessage == "GDPRValidator must be initialized before use"

\* C19: main configures the validator before it connects to the backend and before the
\* server takes tool calls, so every request is served by an initialized validator and
\* none is answered with the validator's not-initialized error; validate and isBlocked
\* called before initialize fail and allow nothing.
C19_GateConfiguredBeforeServing ==
    /\ pc \in {"gdpr", "connected", "serving"} => initialized
    /\ call.op # "none" =>
          /\ initialized
          /\ pc = "serving"
          /\ ~call.res.ok => call.res.err.inner # UninitializedMessage
    /\ ~initialized =>
          /\ pc = "start"
          /\ \A workItem \in GateRecords :
                /\ ~validate(workItem).ok
                /\ validate(workItem).err = PlainError(UninitializedMessage)
          /\ \A type \in TypeNames :
                /\ ~isBlocked(type).ok
                /\ isBlocked(type).err = PlainError(UninitializedMessage)

\* a request was served and its record went through the configured validator
C19_Witness ==
    /\ pc = "serving"
    /\ call.op = "getWorkItem"
    /\ Len(call.res.log) = 2
    /\ call.res.log[2].ev \in {"validate.allowed", "validate.blocked"}

\* C20: the validator's set is written once, by main at startup, and only read afterwards:
\* in every state after startup, whatever tool calls were served, it is the lower-cased
\* set of the configured types.
C20_BlockSetWriteOnce ==
    /\ pc = "start" => blockedWorkItemTypes = {}
    /\ pc # "start" =>
          blockedWorkItemTypes = LowerCasedSet(config.gdprBlockedWorkItemTypes)

\* a request that met a blocked record was answered and the next one is awaited
C20_Witness ==
    /\ pc = "serving"
    /\ call.op = "getMyWorkItems"
    /\ \E k \in 1..Len(call.res.log) : call.res.log[k].ev = "validate.blocked"
    /\ blockedWorkItemTypes # {}


WalkFinished == pc = "walk" /\ call.op = "walk" /\ call.stack = <<>>

\* the nodes of a list of trees with their depths, each node before its subtree and
\* each subtree before the next sibling
RECURSIVE FlattenTrees(_)
FlattenTrees(children) ==
    IF Len(children) = 0 THEN <<>>
    ELSE <<[workItem |-> Head(children).workItem, depth |-> Head(children).depth]>>
         \o FlattenTrees(Head(children).children) \o FlattenTrees(Tail(children))

WorkItemsOf(entries) == [k \in 1..Len(entries) |-> entries[k].workItem]

\* what the finished walk did and returned is what the service function does and returns
WalkMatchesService ==
    WalkFinished =>
        IF call.mode = "flat"
        THEN LET r == getChildWorkItems(backend, call.id, call.maxDepth, 0)
             IN  WorkItemsOf(call.val) = r.val /\ call.log = r.log
        ELSE LET r == getWorkItemTree(backend, call.id, call.maxDepth)
             IN  /\ call.log = r.log
                 /\ call.err = r.err
                 /\ r.ok => call.val = FlattenTrees(r.val.children)

\* C21: a hierarchy walk has at most one backend fetch in flight, and it is the fetch of the
\* innermost activation: every caller below it stands in its loop and fetches its next
\* sibling only after the whole subtree of the current child has returned.
C21_SequentialWalk ==
    (pc = "walk" /\ call.op = "walk") =>
        /\ call.inFlight \in {0, 1}
        /\ call.inFlight = 1 <=> (call.stack # <<>> /\ Top.phase \in AwaitPhases)
        /\ \A k \in 2..Len(call.stack) :
              /\ call.stack[k].phase = "loop"
              /\ call.stack[k - 1].depth = call.stack[k].depth + 1
        /\ WalkMatchesService

\* a fetch below a child is in flight while the caller still has a sibling to go
C21_Witness ==
    /\ pc = "walk" /\ call.op = "walk"
    /\ Len(call.stack) >= 2
    /\ Top.phase \in AwaitPhases
    /\ call.inFlight = 1
    /\ Len(call.stack[2].relations) > 0


CommitIdSeq(commits) == [k \in 1..Len(commits) |-> commits[k].commitId]

\* the backend has a commit that carries no author date
HasUndated(b) ==
    \/ \E h \in DOMAIN b.git.commits : b.git.commits[h].commit.date = 0
    \/ \E n \in DOMAIN b.git.prs :
          \E k \in 1..Len(b.git.prs[n].commits) : b.git.prs[n].commits[k].date = 0

CommitsReturned == pc = "commits" /\ call.op = "getAllCommits" /\ call.joined

\* C22 as stated: against an unchanging backend getAllCommits returns the same commits in
\* the same order whatever the interleaving of its two scans, so a call returns what the
\* call before it returned for the same work item.
C22_SameForEveryInterleaving ==
    (CommitsReturned /\ call.last.id = call.id) =>
        CommitIdSeq(call.res) = CommitIdSeq(call.last.res)

\* C22: getAllCommits starts both scans together and produces its result only when both
\* have returned; the result holds the same commits for every interleaving, and it is the
\* same result, the direct scan's records concatenated before the pull request scan's,
\* whenever every commit of the backend carries an author date.
C22_JoinAfterBothScans ==
    (pc = "commits" /\ call.op = "getAllCommits") =>
        /\ ~call.joined => call.res = <<>>
        /\ call.joined =>
              /\ BothSettled(call.scans)
              /\ Range(CommitIdSeq(call.res))
                    = Range(CommitIdSeq(getAllCommits(backend, call.id).val))
              /\ ~HasUndated(backend) => call.res = getAllCommits(backend, call.id).val

\* the pull request scan has returned its commits while the direct scan has not yet
\* fetched the record; the join waits
C22_Witness ==
    /\ pc = "commits" /\ call.op = "getAllCommits"
    /\ call.scans["pr"].at = "done"
    /\ Len(call.scans["pr"].val) > 0
    /\ call.scans["direct"].at \in {"witApi", "gitApi", "awaitGitApi", "fetch"}
    /\ ~call.joined


\* the fetches of the work item record among the calls a service operation made
RecordFetches(log) == {k \in 1..Len(log) : log[k].ev = "api.getWorkItem"}

\* C23: one getAllCommits call fetches the work item record exactly once; the commit links
\* and the pull request links are both taken from that one snapshot.
C23_SingleSnapshot ==
    call.op = "getAllCommits" => Cardinality(RecordFetches(call.res.log)) = 1


\* every record the walk is fetching or has returned lies at most maxDepth child edges
\* below the root along the path of activations that led to it
WalkWithinDepth ==
    (pc = "walk" /\ call.op = "walk") =>
        /\ \A k \in 1..Len(call.stack) :
              /\ call.stack[k].depth <= call.maxDepth
              /\ call.stack[k].phase = "awaitChild" => call.stack[k].depth + 1 <= call.maxDepth
        /\ \A k \in 1..Len(call.val) : call.val[k].depth <= call.maxDepth

\* C24: for every maxDepth and every finite hierarchy, cycles included, a walk by
\* getChildWorkItems or getWorkItemTree never fetches a record more than maxDepth child
\* edges below the root, and every walk that was started returns.
C24_BoundedWalkTerminates == []WalkWithinDepth /\ (Walking ~> WalkFinished)

\* the walk went round the cycle 1 -> 2 -> 1 as far as maxDepth allows and returned
C24_Witness ==
    /\ WalkFinished
    /\ backend = MkBackend(AllTasks, "twoCycle", "ok")
    /\ call.maxDepth = MaxDepthBound
    /\ Len(call.val) = MaxDepthBound
    /\ \E k \in 1..Len(call.val) : call.val[k].workItem.id = call.id


\* the entries before entry k of a pre-order list that lie above it
EntriesAbove(entries, k) == {i \in 1..(k - 1) : entries[i].depth < entries[k].depth}

Largest(S) == CHOOSE i \in S : \A j \in S : j <= i

\* entry k is a child of the root, or a child of the entry it was walked from, which is
\* in the list one level above it
HasParentEntry(b, root, entries, k) ==
    IF entries[k].depth = 1 THEN entries[k].workItem.id \in ChildIdsOf(b, root)
    ELSE /\ EntriesAbove(entries, k) # {}
         /\ LET j == Largest(EntriesAbove(entries, k))
            IN  /\ entries[j].depth = entries[k].depth - 1
                /\ entries[k].workItem.id \in ChildIdsOf(b, entries[j].workItem.id)

\* C25: what a hierarchy walk returns is ancestor-closed: every returned record passed the
\* gate and is a child of the root or of a returned record one level above it, so nothing
\* that is reachable only through a failed or blocked child is returned.
C25_AncestorClosed ==
    (pc = "walk" /\ call.op = "walk") =>
        \A k \in 1..Len(call.val) :
            /\ call.val[k].depth >= 1
            /\ Passes(backend, call.val[k].workItem.id)
            /\ HasParentEntry(backend, call.id, call.val, k)

\* a walk two levels deep returned a child of the root, and a passing record below a
\* failed or blocked child of the root is not among the records returned
C25_Witness ==
    /\ WalkFinished
    /\ call.maxDepth >= 2
    /\ Len(call.val) > 0
    /\ \E c \in ChildIdsOf(backend, call.id) :
          /\ ~Passes(backend, c)
          /\ \E g \in ChildIdsOf(backend, c) :
                /\ Passes(backend, g)
                /\ \A k \in 1..Len(call.val) : call.val[k].workItem.id # g


\* C26: for every root and maxDepth, what getChildWorkItems(id, maxDepth) returns is the
\* pre-order flattening of the children of the tree getWorkItemTree(id, maxDepth) returns.
C26_FlatIsFlattenedTree ==
    call.op = "getChildWorkItems" =>
        LET tree == getWorkItemTree(backend, call.id, call.maxDepth)
        IN  /\ tree.ok
            /\ call.res.val = WorkItemsOf(FlattenTrees(tree.val.children))


\* C27: whenever getFileContent returns, the size it reports is at most maxFileSizeBytes,
\* also when the metadata reported no size and the size is the length of the content.
C27_ReturnedSizeWithinCeiling ==
    (call.op \in {"getFileContent", "getFileFromPullRequest"} /\ call.res.ok) =>
        call.res.val.size <= config.maxFileSizeBytes


\* the scans that have their Git client in hand
HoldingGitApi == {s \in ScanNames : call.scans[s].at \in {"fetch", "loop", "done"}
                                    /\ call.scans[s].gitApi # 0}

\* C28: in every interleaving of concurrent getGitApi callers connection.getGitApi() is
\* invoked at most once per process, and all callers are handed the same client instance.
C28_GitClientCreatedOnce ==
    pc = "commits" =>
        /\ call.client.created <= 1
        /\ \A s \in HoldingGitApi, t \in HoldingGitApi :
              call.scans[s].gitApi = call.scans[t].gitApi


\* the answer the backend gave to a logged attempt
AnswerTo(e) == ApiGetPullRequest(backend, e.repositoryId, e.pullRequestId, e.project).resp

\* the repository name of a reference: what stands between its first and second "/",
\* or all of it when it has no "/"
RepositoryName(repositoryId) ==
    IF HasSeparator(repositoryId) THEN SecondSegment(repositoryId) ELSE repositoryId

\* the attempts getPullRequest may make, in their order
AttemptOrder(cfg, repositoryId, pullRequestId) ==
    LET name == RepositoryName(repositoryId)
        path == resolveRepositoryId(cfg, repositoryId)
    IN  <<PrEv(name, pullRequestId, cfg.azureDevOpsProject)>>
        \o (IF path # name THEN <<PrEv(path, pullRequestId, cfg.azureDevOpsProject)>> ELSE <<>>)
        \o <<PrEv(name, pullRequestId, NoProject)>>

RECURSIVE RequestedIds(_)
RequestedIds(log) ==
    IF Len(log) = 0 THEN <<>>
    ELSE (IF Head(log).ev = "api.getWorkItems" THEN Head(log).ids ELSE <<>>)
         \o RequestedIds(Tail(log))

\* the ids getMyWorkItems selects from the query result
SelectedIds(b, maxResults) == SubSeq(b.wiql.ids, 1, Min(maxResults, Len(b.wiql.ids)))

EntryOf(entries, id) == {k \in 1..Len(entries) : entries[k].id = id}

\* C30: getMyWorkItems(maxResults) returns at most maxResults entries; every selected id is
\* requested from the backend in exactly one batch, and no batch has more than 200 ids;
\* the entry of a blocked record is marked gdprBlocked and carries the title
\* '[GDPR BLOCKED]' and empty description, fields, tags, area path and iteration path;
\* a record that fails validation for another reason has no entry.
C30_MyWorkItemsBounded ==
    (call.op = "getMyWorkItems" /\ call.res.ok) =>
        LET log == call.res.log
            selected == SelectedIds(backend, call.id)
        IN  /\ Len(call.res.val) <= call.id
            /\ \A k \in 1..Len(log) :
                  log[k].ev = "api.getWorkItems" => Len(log[k].ids) \in 1..BatchSize
            /\ RequestedIds(log) = selected
            /\ \A k \in 1..Len(call.res.val) :
                  LET entry == call.res.val[k]
                      item == ApiGetWorkItem(backend, entry.id).item
                  IN  IF TypeConfiguredBlocked(item.fields.type)
                      THEN /\ entry.gdprBlocked
                           /\ entry.title = <<"[GDPR BLOCKED]", 0>>
                           /\ entry.description = <<"", 0>>
                           /\ entry.fields = EmptyFields
                           /\ entry.tags = <<>>
                           /\ entry.areaPath = <<"", 0>>
                           /\ entry.iterationPath = <<"", 0>>
                      ELSE entry = transformWorkItem(item)
            /\ \A i \in 1..Len(selected) :
                  LET e == ApiGetWorkItem(backend, selected[i])
                  IN  e.resp = "item" =>
                          IF ~WellFormed(e.item) THEN EntryOf(call.res.val, selected[i]) = {}
                          ELSE Cardinality(EntryOf(call.res.val, selected[i])) = 1

\* a result of three batches with a blocked record marked and a record without a type
\* left out
C30_Witness ==
    /\ call.op = "getMyWorkItems" /\ call.res.ok
    /\ pc = "myWorkItems"
    /\ Len(SelectedIds(backend, call.id)) = MaxBatches * BatchSize + 1
    /\ Len(SelectSeq(call.res.log, LAMBDA e : e.ev = "api.getWorkItems")) = MaxBatches + 1
    /\ \E k \in 1..Len(call.res.val) : call.res.val[k].gdprBlocked
    /\ \E i \in 1..Len(SelectedIds(backend, call.id)) :
          LET e == ApiGetWorkItem(backend, SelectedIds(backend, call.id)[i])
          IN  e.resp = "item" /\ ~WellFormed(e.item)

====
